---- MODULE Spec2Model ----
(***************************************************************************)
(* Notification scheduling and delivery engine of AppNotify:               *)
(*   backend/utils/notification_service.py  (resolver, factory,            *)
(*                                            regeneration, sweep)         *)
(*   backend/routes/*.py                    (request handlers)             *)
(*   backend/server.py                      (monolithic copy of the same   *)
(*                                            handlers and engine)         *)
(* Every await on the store or on the mail transport is a suspension point *)
(* and therefore a step boundary of the handler that performs it.          *)
(* Time is counted in seconds.                                             *)
(***************************************************************************)
EXTENDS Integers, Sequences, FiniteSets, TLC

\* ------------------------------------------------------------------ bounds
MaxOps == 1
MaxReq == 2
MaxAdvance == 1
MaxTicks == 1
MaxOutages == 1
MaxSweeps == 2
MaxRegens == 2

\* ------------------------------------------------------- program constants
GraceSeconds == 60
BatchSize == 100
SubscriptionLimit == 1000

Slots == 1..MaxReq
Users == {1}
Emails == {"self", "other"}
ClockSteps == {60}

Null == -1
NoError == "null"
MissingMsg == "Event or contact not found"
SendFailedMsg == "Failed to send email"
StoreErrorMsg == "store error"

\* ------------------------------------------------------------- timestamps
\* A datetime: wall-clock reading `local`, UTC offset `off` (local = UTC +
\* off) and whether it carries zone info at all.  isoformat() prints the
\* wall-clock reading followed by the offset; fromisoformat() reads both back.
Ts(local, off, aware) == [local |-> local, off |-> off, aware |-> aware]
NoTs == Ts(0, 0, FALSE)

\* the absolute instant (seconds, UTC) a datetime denotes; naive means UTC
Instant(ts) == ts.local - ts.off

\* datetime.now(timezone.utc)
UtcNow(t) == Ts(t, 0, TRUE)

\* A datetime object written to the store (BSON date) and read back: the
\* driver keeps the instant and returns a naive UTC datetime.
StoreDatetime(ts) == Ts(Instant(ts), 0, FALSE)

\* order of the offset suffixes of two ISO strings with equal wall-clock
\* part, as str comparison sees them: "+.." < "-.." ('+' is 0x2B, '-' 0x2D),
\* and within one sign by the digits of the magnitude
SuffixLte(a, b) ==
    IF (a >= 0) /\ (b >= 0) THEN a <= b
    ELSE IF (a < 0) /\ (b < 0) THEN (0 - a) <= (0 - b)
    ELSE a >= 0

\* lexicographic <= of two ISO-8601 strings of aware datetimes
IsoLte(a, b) ==
    \/ a.local < b.local
    \/ (a.local = b.local) /\ SuffixLte(a.off, b.off)

\* ------------------------------------------------------ reminder intervals
Interval(unit, value, hasValue, custom, hasCustom) ==
    [unit |-> unit, value |-> value, hasValue |-> hasValue,
     custom |-> custom, hasCustom |-> hasCustom]

UnitSecondsHourOfMinutes(unit) ==
    CASE unit = "minutes" -> 60
      [] unit = "hours" -> 60
      [] unit = "days" -> 86400
      [] unit = "weeks" -> 604800
      [] OTHER -> 0

UnitSeconds(unit) ==
    CASE unit = "minutes" -> 60
      [] unit = "hours" -> 3600
      [] unit = "days" -> 86400
      [] unit = "weeks" -> 604800
      [] OTHER -> 0

RelativeUnits == {"minutes", "hours", "days", "weeks"}

\* timedelta(<unit>=None) raises TypeError
CalcRaises(interval) ==
    /\ ~(interval.unit = "custom" /\ interval.hasCustom)
    /\ interval.unit \in RelativeUnits
    /\ ~interval.hasValue

calculate_notification_time_fallback_as_given(event_date, interval) ==
    LET ed == IF event_date.aware THEN event_date
              ELSE Ts(event_date.local, 0, TRUE)
    IN  IF interval.unit = "custom" /\ interval.hasCustom
        THEN IF interval.custom.aware THEN interval.custom
             ELSE Ts(interval.custom.local, 0, TRUE)
        ELSE IF interval.unit \in RelativeUnits
        THEN Ts(ed.local - interval.value * UnitSeconds(interval.unit),
                ed.off, TRUE)
        ELSE event_date

calculate_notification_time(event_date, interval) ==
    LET ed == IF event_date.aware THEN event_date
              ELSE Ts(event_date.local, 0, TRUE)
    IN  IF interval.unit = "custom" /\ interval.hasCustom
        THEN IF interval.custom.aware THEN interval.custom
             ELSE Ts(interval.custom.local, 0, TRUE)
        ELSE IF interval.unit \in RelativeUnits
        THEN Ts(ed.local - interval.value * UnitSeconds(interval.unit),
                ed.off, TRUE)
        ELSE ed

\* the gate with the boundary second left out
GateStrict(scheduled_at, t) ==
    (Instant(scheduled_at) - t) > (0 - GraceSeconds)

\* the creation gate of the factory: time_until_notification >= -60
Gate(scheduled_at, t) == (Instant(scheduled_at) - t) >= (0 - GraceSeconds)

\* server.py: the resolver keeps a naive event_date naive, knows no custom
\* unit, and the gate is "strictly in the future"
server_calculate_notification_time(event_date, interval) ==
    IF interval.unit \in RelativeUnits
    THEN Ts(event_date.local - interval.value * UnitSeconds(interval.unit),
            event_date.off, event_date.aware)
    ELSE event_date

\* comparing a naive datetime with the aware now raises TypeError
ServerGateRaises(scheduled_at) == ~scheduled_at.aware

ServerGate(scheduled_at, t) == Instant(scheduled_at) > t

\* server.py's ReminderInterval requires an integer value
ServerCalcRaises(interval) == ~interval.hasValue

\* ------------------------------------------------------------ input sets
Min1 == Interval("minutes", 1, TRUE, NoTs, FALSE)
Cust == Interval("custom", 0, FALSE, Ts(0, 0 - 60, TRUE), TRUE)

EventDates == {Ts(60, 0, TRUE), Ts(59, 0, TRUE), Ts(90, 0 - 60, TRUE)}
ReminderLists == {<<Min1>>, <<Min1, Cust>>}

\* reminder_intervals as the store returns them (custom_date is a BSON date)
StoreInterval(i) ==
    IF i.hasCustom THEN [i EXCEPT !.custom = StoreDatetime(i.custom)] ELSE i

StoreRems(rems) == [k \in 1..Len(rems) |-> StoreInterval(rems[k])]

\* ------------------------------------------------------------------ state
VARIABLES
    now,            \* the wall clock, seconds
    clockLeft,      \* clock steps still allowed
    storeUp,        \* whether the document store answers
    outagesLeft,    \* store outages still allowed
    events,         \* db.events
    contacts,       \* db.contacts
    subscriptions,  \* db.subscriptions
    notifications,  \* db.notifications
    ids,            \* next fresh id per collection (uuid4)
    reqs,           \* the request handlers in flight or last returned
    sweep,          \* the recurring job process_pending_notifications
    mail,           \* per notification: send calls made and mails delivered
    opsLeft,        \* requests still allowed to start
    ticksLeft       \* sweep ticks still allowed to start

vars == <<now, clockLeft, storeUp, outagesLeft, events, contacts, subscriptions,
          notifications, ids, reqs, sweep, mail, opsLeft, ticksLeft>>

dbVars == <<events, contacts, subscriptions, notifications, ids>>
envVars == <<now, clockLeft, storeUp, outagesLeft>>

NoEvent == [id |-> 0, user_id |-> 0, event_date |-> NoTs, rems |-> <<>>]

\* what update_event left behind when it returned: the stored event, the
\* pending notifications of the event (how many, and their subscription and
\* scheduled_at), the time, whether the handler had run alone and whether
\* it had called regenerate_notifications
NoRet == [event |-> NoEvent, count |-> 0, pending |-> {}, at |-> 0,
          alone |-> FALSE, regen |-> FALSE]

IdleReq ==
    [op |-> "idle", pc |-> "idle", impl |-> "routes", user |-> 0, ev |-> 0,
     ct |-> 0, sub |-> 0, nid |-> 0, hasDate |-> FALSE, date |-> NoTs,
     hasRems |-> FALSE, rems |-> <<>>, snap |-> NoEvent, todo |-> <<>>,
     idx |-> 0, solo |-> FALSE, result |-> "none", ok |-> FALSE,
     ret |-> NoRet, prev |-> NoRet]

\* log: what the current (or last) tick did with each notification it took
\* up; solo: no request handler has run since the tick began
\* taken: the ids the tick's query returned
\* afterFailure: the query of the tick before this one failed
IdleSweep ==
    [pc |-> "idle", batch |-> <<>>, event |-> FALSE, contact |-> FALSE,
     taken |-> {}, log |-> {}, solo |-> FALSE, raised |-> FALSE,
     queryFailed |-> FALSE, afterFailure |-> FALSE,
     jobs |-> 1, stopped |-> FALSE, overlapped |-> FALSE]

\* server.py startup_event: add_job registers the sweep as an interval job of
\* the scheduler (at most one instance of a job runs at a time, the
\* scheduler's default) and start() lets the timer run
startup_event ==
    /\ sweep.jobs = 0
    /\ ~sweep.stopped
    /\ sweep' = [sweep EXCEPT !.jobs = @ + 1]
    /\ UNCHANGED <<now, clockLeft, storeUp, outagesLeft, events, contacts,
                   subscriptions, notifications, ids, reqs, mail, opsLeft,
                   ticksLeft>>

\* server.py shutdown_event: scheduler.shutdown() stops the timer and cancels
\* the job instance in flight
shutdown_event ==
    /\ sweep.jobs > 0
    /\ ~sweep.stopped
    /\ sweep' = [sweep EXCEPT !.stopped = TRUE, !.pc = "idle",
                              !.batch = <<>>, !.event = FALSE,
                              !.contact = FALSE]
    /\ UNCHANGED <<now, clockLeft, storeUp, outagesLeft, events, contacts,
                   subscriptions, notifications, ids, reqs, mail, opsLeft,
                   ticksLeft>>

TimerFiresWhileRunning == sweep.jobs > 0 /\ ~sweep.stopped

\* the interval timer starts a tick: the scheduler runs, the job is registered
\* and its previous instance has returned
TimerFires == sweep.jobs > 0 /\ ~sweep.stopped /\ sweep.pc = "idle"

Find(coll, id) == CHOOSE x \in coll : x.id = id
Has(coll, id) == \E x \in coll : x.id = id

MinId(coll) == CHOOSE x \in coll : \A y \in coll : x.id <= y.id

\* the documents of a find() in natural (insertion) order: ids are handed
\* out from 1 upwards, so the documents are picked out of 1..(highest id)
InIdOrder(coll) ==
    LET high == CHOOSE i \in {x.id : x \in coll} : \A y \in coll : i >= y.id
        Present(x) == x.id > 0
    IN  IF coll = {} THEN <<>>
        ELSE SelectSeq([k \in 1..high |->
                          IF \E x \in coll : x.id = k
                          THEN CHOOSE x \in coll : x.id = k
                          ELSE [id |-> 0]],
                       Present)

Take(seq, n) == IF Len(seq) <= n THEN seq ELSE SubSeq(seq, 1, n)

Pending(ns) == {n \in ns : n.status = "pending"}
Terminal(ns) == {n \in ns : n.status \in {"sent", "failed"}}

\* Notification(...) as models.py builds it and the factory dumps it
NewNotificationSwapped(id, event_id, sub, user_id, scheduled_at, t) ==
    [id |-> id, event_id |-> event_id, subscription_id |-> sub.contact_id,
     contact_id |-> sub.id, user_id |-> user_id,
     scheduled_at |-> [local |-> scheduled_at.local, off |-> scheduled_at.off],
     sent_at |-> Null, status |-> "pending", error_message |-> NoError,
     created_at |-> t]

NewNotification(id, event_id, sub, user_id, scheduled_at, t) ==
    [id |-> id, event_id |-> event_id, subscription_id |-> sub.id,
     contact_id |-> sub.contact_id, user_id |-> user_id,
     scheduled_at |-> [local |-> scheduled_at.local, off |-> scheduled_at.off],
     sent_at |-> Null, status |-> "pending", error_message |-> NoError,
     created_at |-> t]

NoMail == [sweepCalls |-> 0, testCalls |-> 0, delivered |-> 0]

\* The stores the model starts from are left by requests of user 1 made at
\* time 0: create_contact for contact 2, and create_event for event 1 (and
\* for event 2 when `second`), which subscribed the user's own contact 1 and
\* ran the factory on the in-memory event; when `bare`, delete_contact for
\* contact 1 has then removed that contact with its subscriptions and
\* notifications.
SeedSub(e) == [id |-> e, event_id |-> e, contact_id |-> 1, user_id |-> 1]

RECURSIVE SeedNotifications(_, _, _, _, _)
SeedNotifications(e, date, rems, k, id) ==
    IF k > Len(rems) THEN {}
    ELSE LET at == calculate_notification_time(date, rems[k]) IN
         IF (Instant(at) - 0) >= (0 - GraceSeconds)
         THEN {NewNotification(id, e, SeedSub(e), 1, at, 0)}
              \cup SeedNotifications(e, date, rems, k + 1, id + 1)
         ELSE SeedNotifications(e, date, rems, k + 1, id)

SeedEvent(e, date, rems) ==
    [id |-> e, user_id |-> 1, event_date |-> date, rems |-> StoreRems(rems)]

SecondDate == Ts(59, 0, TRUE)

InitStore(d, l, second, bare) ==
    LET first == SeedNotifications(1, d, l, 1, 1)
        other == IF second
                 THEN SeedNotifications(2, SecondDate, <<Min1>>, 1,
                                        Cardinality(first) + 1)
                 ELSE {}
        made == Cardinality(first) + Cardinality(other)
    IN
    /\ events = {SeedEvent(1, d, l)}
                \cup (IF second THEN {SeedEvent(2, SecondDate, <<Min1>>)}
                      ELSE {})
    /\ contacts = {[id |-> 2, user_id |-> 1, email |-> "other"]}
                  \cup (IF bare THEN {}
                        ELSE {[id |-> 1, user_id |-> 1, email |-> "self"]})
    /\ subscriptions = IF bare THEN {}
                       ELSE {SeedSub(1)}
                            \cup (IF second THEN {SeedSub(2)} ELSE {})
    /\ notifications = IF bare THEN {} ELSE first \cup other
    /\ ids = [ev |-> IF second THEN 3 ELSE 2, ct |-> 3,
              sub |-> IF second THEN 3 ELSE 2, nt |-> made + 1]
    /\ mail = [k \in 1..made |-> NoMail]

Seeds ==
    {<<d, l, FALSE, FALSE>> : d \in EventDates, l \in ReminderLists}
    \cup {<<d, <<Min1>>, TRUE, FALSE>> : d \in EventDates}
    \cup {<<Ts(60, 0, TRUE), <<Min1>>, FALSE, TRUE>>}

InitWith(ops, ticks, clock, outs) ==
    /\ now = 0
    /\ clockLeft = clock
    /\ storeUp = TRUE
    /\ outagesLeft = outs
    /\ \E x \in Seeds : InitStore(x[1], x[2], x[3], x[4])
    /\ reqs = [s \in Slots |-> IdleReq]
    /\ sweep = IdleSweep
    /\ opsLeft = ops
    /\ ticksLeft = ticks

Init == InitWith(MaxOps, MaxTicks, MaxAdvance, 0)

InitFaulty == InitWith(MaxOps, MaxTicks, MaxAdvance, MaxOutages)

\* ---------------------------------------------------------------- helpers
Active(s) == reqs[s].op # "idle"
Running(s) == Active(s) /\ reqs[s].pc # "done"

FreeSlot(s) == ~Running(s) /\ \A q \in Slots : q < s => Running(q)

\* A request handler is entered in slot s with locals r.  solo records that
\* nothing else has run and the clock has not moved since the handler was
\* entered.
Enter(s, r) ==
    /\ opsLeft > 0
    /\ FreeSlot(s)
    /\ storeUp
    /\ opsLeft' = opsLeft - 1
    /\ sweep' = [sweep EXCEPT !.solo = FALSE]
    /\ LET alone == (\A q \in Slots : ~Running(q)) /\ sweep.pc = "idle"
       IN  reqs' = [q \in Slots |->
                      IF q = s THEN [r EXCEPT !.solo = alone]
                      ELSE [reqs[q] EXCEPT !.solo = FALSE]]

Disturbed == [q \in Slots |-> [reqs[q] EXCEPT !.solo = FALSE]]

\* the handler returns (result "ok"), answers 4xx ("rejected") or lets an
\* exception escape ("error"); its locals are dropped
Finished(r, result) ==
    [IdleReq EXCEPT !.op = r.op, !.pc = "done", !.impl = r.impl,
                    !.user = r.user, !.ev = r.ev, !.ct = r.ct, !.sub = r.sub,
                    !.nid = r.nid, !.hasDate = r.hasDate,
                    !.hasRems = r.hasRems, !.solo = r.solo,
                    !.ok = r.ok, !.result = result]

\* one step of the handler in slot s: its record becomes r
Step(s, r) == reqs' = [reqs EXCEPT ![s] = r]

At(s, op, pc) == reqs[s].op = op /\ reqs[s].pc = pc

\* db.notifications.insert_one(notif_dict)
InsertNotification(n) ==
    /\ notifications' = notifications \cup {n}
    /\ ids' = [ids EXCEPT !.nt = @ + 1]
    /\ mail' = [k \in 1..ids.nt |-> IF k = ids.nt THEN NoMail ELSE mail[k]]

\* an update that replaces the document instead of setting three fields
UpdateOneReplacing(ns, id, patch) ==
    {IF n.id = id
     THEN [n EXCEPT !.status = patch.status, !.sent_at = patch.sent_at,
                    !.error_message = patch.error_message,
                    !.scheduled_at = [local |-> 0, off |-> 0],
                    !.created_at = 0]
     ELSE n : n \in ns}

\* db.notifications.update_one({"id": id}, {"$set": patch}): the filter is
\* the id alone, whatever the status; a missing document stays missing.
\* A patch names the status and, unless Null / NoError, the sent_at and the
\* error_message it sets.
UpdateOne(ns, id, patch) ==
    {IF n.id = id
     THEN [n EXCEPT !.status = patch.status,
                    !.sent_at = IF patch.sent_at = Null THEN @
                                ELSE patch.sent_at,
                    !.error_message =
                       IF patch.error_message = NoError THEN @
                       ELSE patch.error_message]
     ELSE n : n \in ns}

\* the patch without its message
MissingPatchNoMessage ==
    [status |-> "failed", sent_at |-> Null, error_message |-> NoError]

\* the $set documents the sweep and send-test write
MissingPatch ==
    [status |-> "failed", sent_at |-> Null, error_message |-> MissingMsg]

\* the patch without sent_at
SentPatchNoTimestamp(t) ==
    [status |-> "sent", sent_at |-> Null, error_message |-> NoError]

SentPatch(t) ==
    [status |-> "sent", sent_at |-> t, error_message |-> NoError]

SendFailedPatch ==
    [status |-> "failed", sent_at |-> Null, error_message |-> SendFailedMsg]

ExceptPatch ==
    [status |-> "failed", sent_at |-> Null, error_message |-> StoreErrorMsg]

TestSentPatch(t) ==
    [status |-> "sent", sent_at |-> t, error_message |-> NoError]

\* what the mail transport does with one message
MailOutcomes == {"ok", "refused", "timeout"}

\* send_email whose timeout is not treated as an error
send_email_timeout_unnoticed(outcome) == outcome \in {"ok", "timeout"}

\* send_email: True when aiosmtplib.send returned, False when it raised
\* (an SMTP error, or the 30 s timeout)
send_email(outcome) == outcome = "ok"

\* ------------------------------------------------------------ environment
ClockAdvance ==
    /\ clockLeft > 0
    /\ \E d \in ClockSteps : now' = now + d
    /\ clockLeft' = clockLeft - 1
    /\ reqs' = Disturbed
    /\ UNCHANGED <<storeUp, outagesLeft, dbVars, sweep, mail, opsLeft, ticksLeft>>

StoreFails ==
    /\ storeUp
    /\ outagesLeft > 0
    /\ storeUp' = FALSE
    /\ outagesLeft' = outagesLeft - 1
    /\ UNCHANGED <<now, clockLeft, dbVars, reqs, sweep, mail, opsLeft, ticksLeft>>

StoreRecovers ==
    /\ ~storeUp
    /\ storeUp' = TRUE
    /\ UNCHANGED <<now, clockLeft, outagesLeft, dbVars, reqs, sweep, mail, opsLeft,
                   ticksLeft>>

\* ------------------------------------------------------------ the factory
\* generate_notifications_for_subscription, one loop iteration per step.
\* r.snap is the event dict the caller passed, Head(r.todo) the subscription,
\* r.idx the position in event['reminder_intervals'].
GenInterval(r) == r.snap.rems[r.idx]

GenScheduledAt(r) ==
    IF r.impl = "routes"
    THEN calculate_notification_time(r.snap.event_date, GenInterval(r))
    ELSE server_calculate_notification_time(r.snap.event_date, GenInterval(r))

GenRaises(r) ==
    IF r.impl = "routes"
    THEN CalcRaises(GenInterval(r))
    ELSE ServerCalcRaises(GenInterval(r)) \/ ServerGateRaises(GenScheduledAt(r))

GenPasses(r) ==
    IF r.impl = "routes"
    THEN Gate(GenScheduledAt(r), now)
    ELSE ServerGate(GenScheduledAt(r), now)

\* where update_event goes on once regenerate_notifications has returned
AfterRegen(r) ==
    [r EXCEPT !.pc = IF r.impl = "routes" THEN "reload" ELSE "update",
              !.todo = <<>>, !.idx = 0, !.snap = NoEvent]

\* what the caller does once the factory has returned for the last
\* subscription
AfterGen(r) ==
    IF r.op = "update_event" THEN AfterRegen(r) ELSE Finished(r, "ok")

\* enter the factory loop for the subscriptions `subs` (a sequence)
StartGen(r, event, subs) ==
    IF subs = <<>> \/ event.rems = <<>>
    THEN AfterGen(r)
    ELSE [r EXCEPT !.pc = "gen", !.snap = event, !.todo = subs, !.idx = 1]

GenAdvance(r) ==
    IF r.idx < Len(r.snap.rems) THEN [r EXCEPT !.idx = @ + 1]
    ELSE IF Len(r.todo) > 1 THEN [r EXCEPT !.todo = Tail(@), !.idx = 1]
    ELSE AfterGen(r)

GenStep(s) ==
    LET r == reqs[s] IN
    /\ r.pc = "gen"
    /\ IF GenRaises(r)
       THEN /\ Step(s, Finished(r, "error"))
            /\ UNCHANGED <<dbVars, mail>>
       ELSE IF GenPasses(r)
       THEN /\ storeUp
            /\ InsertNotification(
                 NewNotification(ids.nt, r.snap.id, Head(r.todo), r.user,
                                 GenScheduledAt(r), now))
            /\ Step(s, GenAdvance(r))
            /\ UNCHANGED <<events, contacts, subscriptions>>
       ELSE /\ Step(s, GenAdvance(r))
            /\ UNCHANGED <<dbVars, mail>>
    /\ UNCHANGED <<envVars, sweep, opsLeft, ticksLeft>>

\* --------------------------------------------------------------- contacts
\* routes/contacts.py create_contact
CreateContact(s, u, email) ==
    /\ Enter(s, Finished([IdleReq EXCEPT !.op = "create_contact",
                                         !.user = u, !.ct = ids.ct], "ok"))
    /\ contacts' = contacts \cup {[id |-> ids.ct, user_id |-> u,
                                   email |-> email]}
    /\ ids' = [ids EXCEPT !.ct = @ + 1]
    /\ UNCHANGED <<envVars, events, subscriptions, notifications, mail,
                   ticksLeft>>

\* routes/contacts.py delete_contact: delete the contact, ...
DeleteContact(s, u, c) ==
    LET r == [IdleReq EXCEPT !.op = "delete_contact", !.user = u, !.ct = c]
        hit == {x \in contacts : x.id = c /\ x.user_id = u}
    IN
    /\ Enter(s, IF hit = {} THEN Finished(r, "rejected")
                ELSE [r EXCEPT !.pc = "del_subs"])
    /\ contacts' = contacts \ hit
    /\ UNCHANGED <<envVars, events, subscriptions, notifications, ids, mail,
                   ticksLeft>>

\* ... its subscriptions, ...
DeleteContactSubs(s) ==
    LET r == reqs[s] IN
    /\ At(s, "delete_contact", "del_subs")
    /\ storeUp
    /\ subscriptions' = {x \in subscriptions : x.contact_id # r.ct}
    /\ Step(s, [r EXCEPT !.pc = "del_notifs"])
    /\ UNCHANGED <<envVars, events, contacts, notifications, ids, sweep,
                   mail, opsLeft, ticksLeft>>

\* ... and its notifications
DeleteContactNotifs(s) ==
    LET r == reqs[s] IN
    /\ At(s, "delete_contact", "del_notifs")
    /\ storeUp
    /\ notifications' = {x \in notifications : x.contact_id # r.ct}
    /\ Step(s, Finished(r, "ok"))
    /\ UNCHANGED <<envVars, events, contacts, subscriptions, ids, sweep,
                   mail, opsLeft, ticksLeft>>

\* ----------------------------------------------------------------- events
\* routes/events.py create_event: insert the event, ...
CreateEvent(s, u, date, rems) ==
    /\ Enter(s, [IdleReq EXCEPT !.op = "create_event", !.pc = "find_contact",
                                !.user = u, !.ev = ids.ev,
                                !.snap = [id |-> ids.ev, user_id |-> u,
                                          event_date |-> date,
                                          rems |-> rems]])
    /\ events' = events \cup {[id |-> ids.ev, user_id |-> u,
                               event_date |-> date,
                               rems |-> StoreRems(rems)]}
    /\ ids' = [ids EXCEPT !.ev = @ + 1]
    /\ UNCHANGED <<envVars, contacts, subscriptions, notifications, mail,
                   ticksLeft>>

\* ... look for the user's own contact, ...
CreateEventFindContact(s) ==
    LET r == reqs[s]
        own == {c \in contacts : c.user_id = r.user /\ c.email = "self"}
    IN
    /\ At(s, "create_event", "find_contact")
    /\ storeUp
    /\ Step(s, IF own = {} THEN [r EXCEPT !.pc = "insert_contact"]
               ELSE [r EXCEPT !.pc = "insert_sub", !.ct = MinId(own).id])
    /\ UNCHANGED <<envVars, dbVars, sweep, mail, opsLeft, ticksLeft>>

\* ... create it when missing, ...
CreateEventInsertContact(s) ==
    LET r == reqs[s] IN
    /\ At(s, "create_event", "insert_contact")
    /\ storeUp
    /\ contacts' = contacts \cup {[id |-> ids.ct, user_id |-> r.user,
                                   email |-> "self"]}
    /\ ids' = [ids EXCEPT !.ct = @ + 1]
    /\ Step(s, [r EXCEPT !.pc = "insert_sub", !.ct = ids.ct])
    /\ UNCHANGED <<envVars, events, subscriptions, notifications, sweep,
                   mail, opsLeft, ticksLeft>>

\* ... subscribe it and run the factory on the in-memory event dict
CreateEventInsertSub(s) ==
    LET r == reqs[s]
        sub == [id |-> ids.sub, event_id |-> r.ev, contact_id |-> r.ct,
                user_id |-> r.user]
    IN
    /\ At(s, "create_event", "insert_sub")
    /\ storeUp
    /\ subscriptions' = subscriptions \cup {sub}
    /\ ids' = [ids EXCEPT !.sub = @ + 1]
    /\ Step(s, StartGen([r EXCEPT !.sub = sub.id], r.snap, <<sub>>))
    /\ UNCHANGED <<envVars, events, contacts, notifications, sweep, mail,
                   opsLeft, ticksLeft>>

\* routes/events.py delete_event: delete the event, ...
DeleteEvent(s, u, e) ==
    LET r == [IdleReq EXCEPT !.op = "delete_event", !.user = u, !.ev = e]
        hit == {x \in events : x.id = e /\ x.user_id = u}
    IN
    /\ Enter(s, IF hit = {} THEN Finished(r, "rejected")
                ELSE [r EXCEPT !.pc = "del_subs"])
    /\ events' = events \ hit
    /\ UNCHANGED <<envVars, contacts, subscriptions, notifications, ids,
                   mail, ticksLeft>>

\* ... its subscriptions, ...
DeleteEventSubs(s) ==
    LET r == reqs[s] IN
    /\ At(s, "delete_event", "del_subs")
    /\ storeUp
    /\ subscriptions' = {x \in subscriptions : x.event_id # r.ev}
    /\ Step(s, [r EXCEPT !.pc = "del_notifs"])
    /\ UNCHANGED <<envVars, events, contacts, notifications, ids, sweep,
                   mail, opsLeft, ticksLeft>>

\* ... and its notifications
DeleteEventNotifs(s) ==
    LET r == reqs[s] IN
    /\ At(s, "delete_event", "del_notifs")
    /\ storeUp
    /\ notifications' = {x \in notifications : x.event_id # r.ev}
    /\ Step(s, Finished(r, "ok"))
    /\ UNCHANGED <<envVars, events, contacts, subscriptions, ids, sweep,
                   mail, opsLeft, ticksLeft>>

\* what an EventUpdate body can carry: a new event_date, a new
\* reminder_intervals list, or neither (a title change)
UpdatePayloads ==
    {[hasDate |-> TRUE, date |-> d, hasRems |-> FALSE, rems |-> <<>>] :
        d \in EventDates}
    \cup {[hasDate |-> FALSE, date |-> NoTs, hasRems |-> TRUE, rems |-> l] :
        l \in ReminderLists}
    \cup {[hasDate |-> FALSE, date |-> NoTs, hasRems |-> FALSE,
           rems |-> <<>>]}

\* should_regenerate of routes/events.py; server.py regenerates for a date only
ShouldRegenerate(r) ==
    IF r.impl = "routes" THEN r.hasDate \/ r.hasRems ELSE r.hasDate

\* the body passes the handler's EventUpdate model: server.py's
\* ReminderInterval requires value, models.py's leaves it optional
ValidUpdate(p, impl) ==
    impl = "server" => \A k \in 1..Len(p.rems) : p.rems[k].hasValue

\* what update_event hands back: the event re-read and, for the record, the
\* event's pending notifications at that moment
Returned(r) ==
    LET mine == {n \in Pending(notifications) : n.event_id = r.ev} IN
    [event |-> Find(events, r.ev), count |-> Cardinality(mine),
     pending |-> {<<n.subscription_id, n.scheduled_at>> : n \in mine},
     at |-> now, alone |-> r.solo,
     regen |-> r.impl = "routes" /\ ShouldRegenerate(r)]

\* update_event, both handlers: find the caller's event; routes/events.py
\* then writes the update and regenerates, server.py regenerates and then
\* writes the update
UpdateEvent(s, u, e, p, impl) ==
    LET r == [IdleReq EXCEPT !.op = "update_event", !.impl = impl,
                             !.user = u, !.ev = e, !.hasDate = p.hasDate,
                             !.date = p.date, !.hasRems = p.hasRems,
                             !.rems = p.rems,
                             !.prev =
                                 IF reqs[s].ev # e THEN NoRet
                                 ELSE IF reqs[s].result = "error"
                                         /\ Has(events, e)
                                 THEN [Returned(reqs[s]) EXCEPT
                                         !.alone = FALSE, !.regen = FALSE]
                                 ELSE reqs[s].ret]
        found == \E x \in events : x.id = e /\ x.user_id = u
    IN
    /\ ValidUpdate(p, impl)
    /\ Enter(s, IF ~found THEN Finished(r, "rejected")
                ELSE IF impl = "routes" \/ ~ShouldRegenerate(r)
                THEN [r EXCEPT !.pc = "update"]
                ELSE [r EXCEPT !.pc = "regen_delete"])
    /\ UNCHANGED <<envVars, dbVars, mail, ticksLeft>>

\* db.events.update_one({"id": event_id}, {"$set": update_data})
UpdateEventWrite(s) ==
    LET r == reqs[s] IN
    /\ At(s, "update_event", "update")
    /\ storeUp
    /\ events' = {IF x.id = r.ev
                  THEN [x EXCEPT !.event_date =
                                    IF r.hasDate THEN r.date ELSE @,
                                 !.rems =
                                    IF r.hasRems THEN StoreRems(r.rems) ELSE @]
                  ELSE x : x \in events}
    /\ Step(s, IF r.impl = "routes" /\ ShouldRegenerate(r)
               THEN [r EXCEPT !.pc = "regen_delete"]
               ELSE [r EXCEPT !.pc = "reload"])
    /\ UNCHANGED <<envVars, contacts, subscriptions, notifications, ids,
                   sweep, mail, opsLeft, ticksLeft>>

\* the filter without its status clause
RegenDeleteFilterAnyStatus(n, event_id) == n.event_id = event_id

\* the filter with the status misspelt: it matches nothing
RegenDeleteFilterWrongCase(n, event_id) ==
    n.event_id = event_id /\ n.status = "PENDING"

\* the filter of regenerate_notifications' delete_many
RegenDeleteFilter(n, event_id) ==
    n.event_id = event_id /\ n.status = "pending"

\* regenerate_notifications: delete the event's pending notifications, ...
RegenDelete(s) ==
    LET r == reqs[s] IN
    /\ At(s, "update_event", "regen_delete")
    /\ storeUp
    /\ notifications' = {n \in notifications :
                           ~RegenDeleteFilter(n, r.ev)}
    /\ Step(s, [r EXCEPT !.pc = "regen_find"])
    /\ UNCHANGED <<envVars, events, contacts, subscriptions, ids, sweep,
                   mail, opsLeft, ticksLeft>>

\* ... reload the event (return when it is gone), ...
RegenFindEvent(s) ==
    LET r == reqs[s] IN
    /\ At(s, "update_event", "regen_find")
    /\ storeUp
    /\ Step(s, IF Has(events, r.ev)
               THEN [r EXCEPT !.pc = "regen_subs", !.snap = Find(events, r.ev)]
               ELSE AfterRegen(r))
    /\ UNCHANGED <<envVars, dbVars, sweep, mail, opsLeft, ticksLeft>>

\* ... list its subscriptions and run the factory for each
RegenFindSubs(s) ==
    LET r == reqs[s]
        subs == {x \in subscriptions : x.event_id = r.ev}
    IN
    /\ At(s, "update_event", "regen_subs")
    /\ storeUp
    /\ Step(s, StartGen(r, r.snap, Take(InIdOrder(subs), SubscriptionLimit)))
    /\ UNCHANGED <<envVars, dbVars, sweep, mail, opsLeft, ticksLeft>>

\* the handler re-reads the event for its response; None["..."] raises
UpdateEventReload(s) ==
    LET r == reqs[s] IN
    /\ At(s, "update_event", "reload")
    /\ storeUp
    /\ Step(s, IF Has(events, r.ev)
               THEN [Finished(r, "ok") EXCEPT !.ret = Returned(r),
                                              !.prev = r.prev]
               ELSE Finished(r, "error"))
    /\ UNCHANGED <<envVars, dbVars, sweep, mail, opsLeft, ticksLeft>>

\* ---------------------------------------------------------- subscriptions
\* routes/subscriptions.py add_subscription: find the caller's event, ...
AddSubscription(s, u, e, c) ==
    LET r == [IdleReq EXCEPT !.op = "add_subscription", !.user = u,
                             !.ev = e, !.ct = c]
        found == \E x \in events : x.id = e /\ x.user_id = u
    IN
    /\ Enter(s, IF ~found THEN Finished(r, "rejected")
                ELSE [r EXCEPT !.pc = "find_contact",
                               !.snap = Find(events, e)])
    /\ UNCHANGED <<envVars, dbVars, mail, ticksLeft>>

\* ... the caller's contact, ...
AddSubscriptionFindContact(s) ==
    LET r == reqs[s] IN
    /\ At(s, "add_subscription", "find_contact")
    /\ storeUp
    /\ Step(s, IF \E x \in contacts : x.id = r.ct /\ x.user_id = r.user
               THEN [r EXCEPT !.pc = "find_existing"]
               ELSE Finished(r, "rejected"))
    /\ UNCHANGED <<envVars, dbVars, sweep, mail, opsLeft, ticksLeft>>

\* ... refuse a contact that is already subscribed, ...
AddSubscriptionFindExisting(s) ==
    LET r == reqs[s] IN
    /\ At(s, "add_subscription", "find_existing")
    /\ storeUp
    /\ Step(s, IF \E x \in subscriptions :
                     x.event_id = r.ev /\ x.contact_id = r.ct
               THEN Finished(r, "rejected")
               ELSE [r EXCEPT !.pc = "insert_sub"])
    /\ UNCHANGED <<envVars, dbVars, sweep, mail, opsLeft, ticksLeft>>

\* ... insert the subscription and run the factory on the event read first
AddSubscriptionInsert(s) ==
    LET r == reqs[s]
        sub == [id |-> ids.sub, event_id |-> r.ev, contact_id |-> r.ct,
                user_id |-> r.user]
    IN
    /\ At(s, "add_subscription", "insert_sub")
    /\ storeUp
    /\ subscriptions' = subscriptions \cup {sub}
    /\ ids' = [ids EXCEPT !.sub = @ + 1]
    /\ Step(s, StartGen([r EXCEPT !.sub = sub.id], r.snap, <<sub>>))
    /\ UNCHANGED <<envVars, events, contacts, notifications, sweep, mail,
                   opsLeft, ticksLeft>>

\* routes/subscriptions.py remove_subscription: delete the subscription ...
RemoveSubscription(s, u, e, b) ==
    LET r == [IdleReq EXCEPT !.op = "remove_subscription", !.user = u,
                             !.ev = e, !.sub = b]
        hit == {x \in subscriptions :
                  x.id = b /\ x.event_id = e /\ x.user_id = u}
    IN
    /\ Enter(s, IF hit = {} THEN Finished(r, "rejected")
                ELSE [r EXCEPT !.pc = "del_notifs"])
    /\ subscriptions' = subscriptions \ hit
    /\ UNCHANGED <<envVars, events, contacts, notifications, ids, mail,
                   ticksLeft>>

\* ... and its notifications
RemoveSubscriptionNotifs(s) ==
    LET r == reqs[s] IN
    /\ At(s, "remove_subscription", "del_notifs")
    /\ storeUp
    /\ notifications' = {x \in notifications : x.subscription_id # r.sub}
    /\ Step(s, Finished(r, "ok"))
    /\ UNCHANGED <<envVars, events, contacts, subscriptions, ids, sweep,
                   mail, opsLeft, ticksLeft>>

\* ------------------------------------------------------------- send-test
\* the check that refuses only a notification already sent
NotPendingOnlySent(x) == x.status = "sent"

\* notif["status"] != "pending"
NotPending(x) == x.status # "pending"

\* routes/notifications.py send_test_notification: find the caller's
\* notification and refuse one that is not pending, ...
\* the lookup without its user_id clause
SendTestAnyOwner(s, u, n) ==
    LET r == [IdleReq EXCEPT !.op = "send_test", !.user = u, !.nid = n]
        hit == {x \in notifications : x.id = n}
    IN
    /\ Enter(s, IF hit = {} \/ (\E x \in hit : NotPending(x))
                THEN Finished(r, "rejected")
                ELSE LET x == CHOOSE x \in hit : TRUE
                     IN  [r EXCEPT !.pc = "find_event", !.ev = x.event_id,
                                   !.ct = x.contact_id])
    /\ UNCHANGED <<envVars, dbVars, mail, ticksLeft>>

SendTest(s, u, n) ==
    LET r == [IdleReq EXCEPT !.op = "send_test", !.user = u, !.nid = n]
        hit == {x \in notifications : x.id = n /\ x.user_id = u}
    IN
    /\ Enter(s, IF hit = {} \/ (\E x \in hit : NotPending(x))
                THEN Finished(r, "rejected")
                ELSE LET x == CHOOSE x \in hit : TRUE
                     IN  [r EXCEPT !.pc = "find_event", !.ev = x.event_id,
                                   !.ct = x.contact_id])
    /\ UNCHANGED <<envVars, dbVars, mail, ticksLeft>>

\* ... look up its event ...
SendTestFindEvent(s) ==
    LET r == reqs[s] IN
    /\ At(s, "send_test", "find_event")
    /\ storeUp
    /\ Step(s, [r EXCEPT !.pc = "find_contact", !.ok = Has(events, r.ev)])
    /\ UNCHANGED <<envVars, dbVars, sweep, mail, opsLeft, ticksLeft>>

\* ... and contact (404 when either is missing), ...
SendTestFindContact(s) ==
    LET r == reqs[s] IN
    /\ At(s, "send_test", "find_contact")
    /\ storeUp
    /\ Step(s, IF r.ok /\ Has(contacts, r.ct)
               THEN [r EXCEPT !.pc = "send", !.ok = FALSE]
               ELSE Finished([r EXCEPT !.ok = FALSE], "rejected"))
    /\ UNCHANGED <<envVars, dbVars, sweep, mail, opsLeft, ticksLeft>>

\* ... send the mail ...
SendTestSend(s, outcome) ==
    LET r == reqs[s] IN
    /\ At(s, "send_test", "send")
    /\ mail' = [mail EXCEPT ![r.nid].testCalls = @ + 1,
                            ![r.nid].delivered =
                                IF outcome = "ok" THEN @ + 1 ELSE @]
    /\ Step(s, IF send_email(outcome)
               THEN [r EXCEPT !.pc = "mark_sent", !.ok = TRUE]
               ELSE Finished(r, "ok"))
    /\ UNCHANGED <<envVars, dbVars, sweep, opsLeft, ticksLeft>>

\* ... and on success mark the notification sent
SendTestMarkSent(s) ==
    LET r == reqs[s] IN
    /\ At(s, "send_test", "mark_sent")
    /\ storeUp
    /\ notifications' = UpdateOne(notifications, r.nid, TestSentPatch(now))
    /\ Step(s, Finished(r, "ok"))
    /\ UNCHANGED <<envVars, events, contacts, subscriptions, ids, sweep,
                   mail, opsLeft, ticksLeft>>

\* -------------------------------------------------------------- the sweep
\* process_pending_notifications.  The query compares the stored ISO string
\* of scheduled_at with now.isoformat().
\* the query without its status clause
DueAnyStatus(n, t) == IsoLte(n.scheduled_at, [local |-> t, off |-> 0])

\* the query with $lt in place of $lte
DueStrictly(n, t) ==
    /\ n.status = "pending"
    /\ IsoLte(n.scheduled_at, [local |-> t, off |-> 0])
    /\ n.scheduled_at # [local |-> t, off |-> 0]

Due(n, t) == n.status = "pending" /\ IsoLte(n.scheduled_at, [local |-> t, off |-> 0])

Snapshot(n) == [id |-> n.id, event_id |-> n.event_id,
                contact_id |-> n.contact_id]

\* the query without .to_list(100)
QueryDueUnlimited(ns, t) ==
    InIdOrder({Snapshot(n) : n \in {m \in ns : Due(m, t)}})

QueryDue(ns, t) ==
    Take(InIdOrder({Snapshot(n) : n \in {m \in ns : Due(m, t)}}), BatchSize)

SweepQuery ==
    /\ TimerFires
    /\ ticksLeft > 0
    /\ storeUp
    /\ \E batch \in {QueryDue(notifications, now)} :
       sweep' = [IdleSweep EXCEPT
                   !.pc = IF batch = <<>> THEN "idle" ELSE "find_event",
                   !.batch = batch,
                   !.taken = {batch[k].id : k \in 1..Len(batch)},
                   !.afterFailure = sweep.queryFailed,
                   !.jobs = sweep.jobs, !.stopped = sweep.stopped,
                   !.overlapped = sweep.overlapped \/ sweep.pc # "idle",
                   !.solo = \A q \in Slots : ~Running(q)]
    /\ ticksLeft' = ticksLeft - 1
    /\ reqs' = Disturbed
    /\ UNCHANGED <<envVars, dbVars, mail, opsLeft>>

\* the query outside the try block: its exception leaves the job
SweepQueryRaises ==
    /\ sweep.pc = "idle"
    /\ ticksLeft > 0
    /\ ~storeUp
    /\ sweep' = [IdleSweep EXCEPT !.queryFailed = TRUE, !.raised = TRUE,
                                  !.solo = \A q \in Slots : ~Running(q)]
    /\ ticksLeft' = ticksLeft - 1
    /\ reqs' = Disturbed
    /\ UNCHANGED <<envVars, dbVars, mail, opsLeft>>

\* the query raises: the tick is logged and abandoned
SweepQueryFails ==
    /\ TimerFires
    /\ ticksLeft > 0
    /\ ~storeUp
    /\ sweep' = [IdleSweep EXCEPT !.queryFailed = TRUE,
                                  !.jobs = sweep.jobs,
                                  !.stopped = sweep.stopped,
                                  !.overlapped = sweep.overlapped
                                                 \/ sweep.pc # "idle",
                                  !.solo = \A q \in Slots : ~Running(q)]
    /\ ticksLeft' = ticksLeft - 1
    /\ reqs' = Disturbed
    /\ UNCHANGED <<envVars, dbVars, mail, opsLeft>>

\* the loop moves on to the next notification of the batch
SweepContinue(sw) ==
    [sw EXCEPT !.batch = Tail(@),
               !.pc = IF Len(sw.batch) > 1 THEN "find_event" ELSE "idle",
               !.event = FALSE, !.contact = FALSE]

SweepFindEvent ==
    /\ sweep.pc = "find_event"
    /\ storeUp
    /\ sweep' = [sweep EXCEPT !.pc = "find_contact",
                              !.event = Has(events, Head(sweep.batch).event_id)]
    /\ UNCHANGED <<envVars, dbVars, reqs, mail, opsLeft, ticksLeft>>

SweepFindContact ==
    LET found == Has(contacts, Head(sweep.batch).contact_id) IN
    /\ sweep.pc = "find_contact"
    /\ storeUp
    /\ sweep' = IF sweep.event /\ found
                THEN [sweep EXCEPT !.pc = "send", !.contact = TRUE]
                ELSE [sweep EXCEPT !.pc = "mark_missing", !.contact = found,
                                   !.log = @ \cup {[id |-> Head(sweep.batch).id,
                                                    outcome |-> "missing"]}]
    /\ UNCHANGED <<envVars, dbVars, reqs, mail, opsLeft, ticksLeft>>

SweepMarkMissing ==
    /\ sweep.pc = "mark_missing"
    /\ storeUp
    /\ notifications' = UpdateOne(notifications, Head(sweep.batch).id,
                                  MissingPatch)
    /\ sweep' = SweepContinue(sweep)
    /\ UNCHANGED <<envVars, events, contacts, subscriptions, ids, reqs, mail,
                   opsLeft, ticksLeft>>

\* render the reminder and send it
SweepSend(outcome) ==
    LET id == Head(sweep.batch).id IN
    /\ sweep.pc = "send"
    /\ mail' = [mail EXCEPT ![id].sweepCalls = @ + 1,
                            ![id].delivered =
                                IF outcome = "ok" THEN @ + 1 ELSE @]
    /\ sweep' = [sweep EXCEPT
                   !.pc = IF send_email(outcome) THEN "mark_sent"
                          ELSE "mark_failed",
                   !.log = @ \cup {[id |-> id, outcome |-> outcome]}]
    /\ UNCHANGED <<envVars, dbVars, reqs, opsLeft, ticksLeft>>

SweepMarkSent ==
    /\ sweep.pc = "mark_sent"
    /\ storeUp
    /\ notifications' = UpdateOne(notifications, Head(sweep.batch).id,
                                  SentPatch(now))
    /\ sweep' = SweepContinue(sweep)
    /\ UNCHANGED <<envVars, events, contacts, subscriptions, ids, reqs, mail,
                   opsLeft, ticksLeft>>

SweepMarkFailed ==
    /\ sweep.pc = "mark_failed"
    /\ storeUp
    /\ notifications' = UpdateOne(notifications, Head(sweep.batch).id,
                                  SendFailedPatch)
    /\ sweep' = SweepContinue(sweep)
    /\ UNCHANGED <<envVars, events, contacts, subscriptions, ids, reqs, mail,
                   opsLeft, ticksLeft>>

\* --------------------------------------------------- store errors
\* whether the next step of the handler with locals r is a call on the store
StoreCallNext(r) ==
    /\ r.pc \notin {"done", "idle", "send"}
    /\ (r.pc = "gen") => (~GenRaises(r) /\ GenPasses(r))

AbortSwallowed(s) ==
    /\ Running(s)
    /\ StoreCallNext(reqs[s])
    /\ ~storeUp
    /\ Step(s, Finished(reqs[s], "ok"))
    /\ UNCHANGED <<envVars, dbVars, sweep, mail, opsLeft, ticksLeft>>

\* a store call made while the store is down raises out of the handler
Abort(s) ==
    /\ Running(s)
    /\ StoreCallNext(reqs[s])
    /\ ~storeUp
    /\ Step(s, Finished(reqs[s], "error"))
    /\ UNCHANGED <<envVars, dbVars, sweep, mail, opsLeft, ticksLeft>>

\* a store call inside the sweep's try block raises: control goes to the
\* except clause of the loop body
SweepStoreError ==
    /\ sweep.pc \in {"find_event", "find_contact", "mark_missing",
                     "mark_sent", "mark_failed"}
    /\ ~storeUp
    /\ sweep' = [sweep EXCEPT !.pc = "except",
                              !.log = @ \cup {[id |-> Head(sweep.batch).id,
                                               outcome |-> "store_error"]}]
    /\ UNCHANGED <<envVars, dbVars, reqs, mail, opsLeft, ticksLeft>>

\* the except clause marks the notification failed with str(e); that
\* update_one is outside any try, so when it raises too the job ends
SweepExcept ==
    /\ sweep.pc = "except"
    /\ IF storeUp
       THEN /\ notifications' = UpdateOne(notifications, Head(sweep.batch).id,
                                          ExceptPatch)
            /\ sweep' = SweepContinue(sweep)
       ELSE /\ notifications' = notifications
            /\ sweep' = [sweep EXCEPT !.pc = "idle", !.batch = <<>>,
                                      !.raised = TRUE]
    /\ UNCHANGED <<envVars, events, contacts, subscriptions, ids, reqs, mail,
                   opsLeft, ticksLeft>>

\* ------------------------------------------------------- specifications
NotifIds == 1..(ids.nt - 1)
EventIds == 1..(ids.ev - 1)
ContactIds == 1..(ids.ct - 1)
SubIds == 1..(ids.sub - 1)

Requests ==
    \/ \E s \in Slots, u \in Users, e \in Emails : CreateContact(s, u, e)
    \/ \E s \in Slots, u \in Users, c \in ContactIds : DeleteContact(s, u, c)
    \/ \E s \in Slots, u \in Users, d \in EventDates, l \in ReminderLists :
         CreateEvent(s, u, d, l)
    \/ \E s \in Slots, u \in Users, e \in EventIds, p \in UpdatePayloads,
          i \in {"routes", "server"} : UpdateEvent(s, u, e, p, i)
    \/ \E s \in Slots, u \in Users, e \in EventIds : DeleteEvent(s, u, e)
    \/ \E s \in Slots, u \in Users, e \in EventIds, c \in ContactIds :
         AddSubscription(s, u, e, c)
    \/ \E s \in Slots, u \in Users, e \in EventIds, b \in SubIds :
         RemoveSubscription(s, u, e, b)
    \/ \E s \in Slots, u \in Users, n \in NotifIds : SendTest(s, u, n)

HandlerSteps ==
    \/ \E s \in Slots : DeleteContactSubs(s)
    \/ \E s \in Slots : DeleteContactNotifs(s)
    \/ \E s \in Slots : CreateEventFindContact(s)
    \/ \E s \in Slots : CreateEventInsertContact(s)
    \/ \E s \in Slots : CreateEventInsertSub(s)
    \/ \E s \in Slots : UpdateEventWrite(s)
    \/ \E s \in Slots : RegenDelete(s)
    \/ \E s \in Slots : RegenFindEvent(s)
    \/ \E s \in Slots : RegenFindSubs(s)
    \/ \E s \in Slots : UpdateEventReload(s)
    \/ \E s \in Slots : DeleteEventSubs(s)
    \/ \E s \in Slots : DeleteEventNotifs(s)
    \/ \E s \in Slots : AddSubscriptionFindContact(s)
    \/ \E s \in Slots : AddSubscriptionFindExisting(s)
    \/ \E s \in Slots : AddSubscriptionInsert(s)
    \/ \E s \in Slots : RemoveSubscriptionNotifs(s)
    \/ \E s \in Slots : SendTestFindEvent(s)
    \/ \E s \in Slots : SendTestFindContact(s)
    \/ \E s \in Slots, o \in MailOutcomes : SendTestSend(s, o)
    \/ \E s \in Slots : SendTestMarkSent(s)
    \/ \E s \in Slots : GenStep(s)

SweepSteps ==
    \/ SweepQuery
    \/ SweepFindEvent
    \/ SweepFindContact
    \/ SweepMarkMissing
    \/ \E o \in MailOutcomes : SweepSend(o)
    \/ SweepMarkSent
    \/ SweepMarkFailed

StoreErrors ==
    \/ StoreFails
    \/ StoreRecovers
    \/ \E s \in Slots : Abort(s)
    \/ SweepQueryFails
    \/ SweepStoreError
    \/ SweepExcept

\* the store answers every call
Next == ClockAdvance \/ Requests \/ HandlerSteps \/ SweepSteps

Spec == Init /\ [][Next]_vars

\* the store may go down and come back
NextFaulty == Next \/ StoreErrors

SpecFaulty == InitFaulty /\ [][NextFaulty]_vars

\* several ticks of the sweep, one after the other
InitTicks == InitWith(MaxOps, MaxSweeps, MaxAdvance, 0)

SpecTicks == InitTicks /\ [][Next]_vars

\* the sweep alone, with a store that may go down and come back; no request
\* runs, so every contact the sweep looks up exists
InitOutage == InitWith(0, MaxSweeps, MaxAdvance, MaxOutages)

NextOutage ==
    \/ ClockAdvance
    \/ SweepQuery
    \/ SweepFindEvent
    \/ SweepFindContact
    \/ \E o \in MailOutcomes : SweepSend(o)
    \/ SweepMarkSent
    \/ SweepMarkFailed
    \/ StoreFails
    \/ StoreRecovers
    \/ SweepQueryFails
    \/ SweepStoreError
    \/ SweepExcept

SpecOutage == InitOutage /\ [][NextOutage]_vars

\* Events are updated (routes/events.py) one request after the other,
\* between ticks of the sweep; a delete_event may arrive while an update is
\* under way.
InitRegen == InitWith(MaxRegens, MaxTicks, MaxAdvance, 0)

Quiet == (\A q \in Slots : ~Running(q)) /\ sweep.pc = "idle"

NextRegen ==
    \/ ClockAdvance
    \/ \E s \in Slots, u \in Users, e \in EventIds, p \in UpdatePayloads :
         Quiet /\ UpdateEvent(s, u, e, p, "routes")
    \/ \E s \in Slots, u \in Users, e \in EventIds :
         sweep.pc = "idle" /\ DeleteEvent(s, u, e)
    \/ \E s \in Slots : UpdateEventWrite(s)
    \/ \E s \in Slots : RegenDelete(s)
    \/ \E s \in Slots : RegenFindEvent(s)
    \/ \E s \in Slots : RegenFindSubs(s)
    \/ \E s \in Slots : GenStep(s)
    \/ \E s \in Slots : UpdateEventReload(s)
    \/ \E s \in Slots : DeleteEventSubs(s)
    \/ \E s \in Slots : DeleteEventNotifs(s)
    \/ Quiet /\ SweepQuery
    \/ SweepFindEvent
    \/ SweepFindContact
    \/ SweepMarkMissing
    \/ \E o \in MailOutcomes : SweepSend(o)
    \/ SweepMarkSent
    \/ SweepMarkFailed

SpecRegen == InitRegen /\ [][NextRegen]_vars

\* ============================================================ properties
\* the handler in slot s has taken a step
Moved(s) ==
    \/ reqs'[s].pc # reqs[s].pc
    \/ reqs'[s].idx # reqs[s].idx
    \/ reqs'[s].todo # reqs[s].todo

\* the absolute instant a stored scheduled_at string denotes
SchedInstant(n) == n.scheduled_at.local - n.scheduled_at.off

IsoOf(ts) == [local |-> ts.local, off |-> ts.off]

\* C1: once a notification is sent or failed, no step changes its status,
\* sent_at or error_message (under any interleaving of the sweep, send-test,
\* regeneration and the CRUD handlers).
C1_TerminalNeverChanges ==
    [][\A n \in Terminal(notifications) : \A m \in notifications' :
          m.id = n.id => /\ m.status = n.status
                         /\ m.sent_at = n.sent_at
                         /\ m.error_message = n.error_message]_vars

\* C2: every loop iteration of notification_service's factory inserts
\* exactly one pending notification for the subscription and the interval's
\* resolved fire time when now - fire time <= 60 s, and nothing otherwise.
C2_CreationGate ==
    [][\A s \in Slots :
          (reqs[s].pc = "gen" /\ reqs[s].impl = "routes" /\ Moved(s)) =>
             LET r == reqs[s]
                 fire == calculate_notification_time(r.snap.event_date,
                                                     r.snap.rems[r.idx])
                 made == {n \in notifications' \ notifications :
                            /\ n.subscription_id = Head(r.todo).id
                            /\ n.event_id = r.snap.id
                            /\ n.scheduled_at = IsoOf(fire)
                            /\ n.status = "pending"}
             IN  IF now - Instant(fire) <= GraceSeconds
                 THEN /\ Cardinality(made) = 1
                      /\ notifications' = notifications \cup made
                 ELSE notifications' = notifications]_vars

\* C2 witness: add_subscription has returned and its factory created a
\* notification whose fire time was exactly 60 s in the past
C2_Witness ==
    \E s \in Slots :
       /\ reqs[s].op = "add_subscription" /\ reqs[s].pc = "done"
       /\ reqs[s].result = "ok"
       /\ \E n \in notifications :
             /\ n.subscription_id = reqs[s].sub
             /\ n.created_at - SchedInstant(n) = GraceSeconds

\* what the Notification Factory (generate_notifications_for_subscription)
\* yields at time t for event ev and its subscriptions subs
FactoryYield(ev, subs, t) ==
    {<<b.id, k, IsoOf(calculate_notification_time(ev.event_date, ev.rems[k]))>> :
        b \in subs,
        k \in {j \in 1..Len(ev.rems) :
                 Gate(calculate_notification_time(ev.event_date, ev.rems[j]), t)}}

PendingOf(e) == {n \in Pending(notifications) : n.event_id = e}

\* the pending notifications of event e are exactly the factory's yield
PendingIsYield(e) ==
    LET ev == Find(events, e)
        subs == {b \in subscriptions : b.event_id = e}
        yield == FactoryYield(ev, subs, now)
    IN  /\ Cardinality(PendingOf(e)) = Cardinality(yield)
        /\ {<<n.subscription_id, n.scheduled_at>> : n \in PendingOf(e)}
             = {<<y[1], y[3]>> : y \in yield}

UpdateReturnedAlone(s) ==
    /\ reqs[s].op = "update_event" /\ reqs[s].pc = "done"
    /\ reqs[s].result = "ok" /\ reqs[s].solo
    /\ reqs[s].hasDate \/ reqs[s].hasRems

\* C3: after an update_event (either handler) that supplied event_date or
\* reminder_intervals has returned with nothing else running, the event's
\* pending notifications are exactly what the factory yields from the stored
\* (post-update) event for each of its subscriptions.
C3_PendingReflectsUpdate ==
    \A s \in Slots :
       UpdateReturnedAlone(s) => PendingIsYield(reqs[s].ev)

\* C3, the handler of routes/events.py alone
C3_RoutesPendingReflectsUpdate ==
    \A s \in Slots :
       (UpdateReturnedAlone(s) /\ reqs[s].impl = "routes")
          => PendingIsYield(reqs[s].ev)

\* C4: regeneration inserts no pending notification for a subscription and
\* fire time for which a sent or failed notification already exists.
C4_NoDuplicateOfTerminal ==
    [][\A s \in Slots :
          (reqs[s].op = "update_event" /\ reqs[s].impl = "routes"
           /\ reqs[s].pc = "gen" /\ Moved(s)) =>
             \A n \in notifications' \ notifications :
                ~\E t \in Terminal(notifications) :
                    /\ t.subscription_id = n.subscription_id
                    /\ SchedInstant(t) = SchedInstant(n)]_vars

RegenPcs == {"regen_delete", "regen_find", "regen_subs", "gen"}

\* C5: no step of regenerate_notifications removes or changes a notification
\* that is sent or failed or that belongs to another event; its delete step
\* removes exactly the pending notifications of the given event.
C5_RegenDeletesOnlyPending ==
    [][\A s \in Slots :
          (reqs[s].op = "update_event" /\ reqs[s].pc \in RegenPcs
           /\ Moved(s)) =>
             /\ \A n \in notifications :
                   (n.status # "pending" \/ n.event_id # reqs[s].ev)
                      => n \in notifications'
             /\ reqs[s].pc = "regen_delete" =>
                   notifications' =
                      notifications \ PendingOf(reqs[s].ev)]_vars

\* C5 witness: regeneration has just deleted, while the event has a terminal
\* notification and another event has notifications too
C5_Witness ==
    \E s \in Slots :
       /\ At(s, "update_event", "regen_find")
       /\ \E t \in Terminal(notifications) : t.event_id = reqs[s].ev
       /\ \E o \in notifications : o.event_id # reqs[s].ev
       /\ PendingOf(reqs[s].ev) = {}

\* C6: when a tick has ended, every notification it took up whose event and
\* contact existed and whose mail the transport accepted is sent, has sent_at
\* set and no error_message (and is still there if no request ran meanwhile).
C6_DeliveredMarkedSent ==
    sweep.pc = "idle" =>
       \A x \in sweep.log :
          x.outcome = "ok" =>
             /\ sweep.solo => Has(notifications, x.id)
             /\ \A n \in notifications :
                   n.id = x.id => /\ n.status = "sent"
                                  /\ n.sent_at # Null
                                  /\ n.error_message = NoError

C6_Witness ==
    /\ sweep.pc = "idle"
    /\ \E x \in sweep.log :
          /\ x.outcome = "ok"
          /\ \E n \in notifications : n.id = x.id /\ n.status = "sent"

\* C7: when the tick finds the event or the contact of a notification
\* missing it goes on to mark it, and the marking step leaves it failed with
\* "Event or contact not found"; no send call is made for it.
C7_MissingMarkedFailed ==
    [][/\ (sweep.pc = "find_contact" /\ sweep'.pc # "find_contact"
           /\ ~(sweep.event /\ Has(contacts, Head(sweep.batch).contact_id)))
             => (sweep'.pc = "mark_missing" /\ mail' = mail)
       /\ (sweep.pc = "mark_missing" /\ sweep'.pc # "mark_missing")
             => /\ mail' = mail
                /\ \A x \in sweep.log :
                      x.id = Head(sweep.batch).id => x.outcome = "missing"
                /\ \A n \in notifications' :
                      n.id = Head(sweep.batch).id
                         => /\ n.status = "failed"
                            /\ n.error_message = MissingMsg]_vars

C7_Witness ==
    \E x \in sweep.log :
       /\ x.outcome = "missing"
       /\ mail[x.id].sweepCalls = 0
       /\ \E n \in notifications :
             /\ n.id = x.id /\ n.status = "failed"
             /\ n.error_message = MissingMsg
             /\ ~Has(contacts, n.contact_id)

\* C8: when the transport does not accept the mail (refusal or timeout) the
\* tick goes on to mark the notification failed, and the marking step leaves
\* it failed with an error_message (never sent).
C8_SendFailureMarkedFailed ==
    [][/\ (sweep.pc = "send" /\ sweep'.pc # "send"
           /\ mail'[Head(sweep.batch).id].delivered
                = mail[Head(sweep.batch).id].delivered)
             => sweep'.pc = "mark_failed"
       /\ (sweep.pc = "mark_failed" /\ sweep'.pc # "mark_failed")
             => \A n \in notifications' :
                   n.id = Head(sweep.batch).id
                      => /\ n.status = "failed"
                         /\ n.error_message # NoError]_vars

C8_Witness ==
    \E x \in sweep.log :
       /\ x.outcome = "timeout"
       /\ \E n \in notifications :
             /\ n.id = x.id /\ n.status = "failed"
             /\ n.error_message = SendFailedMsg

\* C9: process_pending_notifications never raises, and when a tick has ended
\* every notification its query returned has been processed.
C9_BatchNeverAborted ==
    /\ ~sweep.raised
    /\ (sweep.pc = "idle" /\ ~sweep.queryFailed)
          => \A id \in sweep.taken : \E x \in sweep.log : x.id = id

\* C10: the notifications a tick takes up are pending and their scheduled_at,
\* as an absolute instant, is not later than the tick's time.
C10_OnlyDueAttempted ==
    [][(sweep.pc = "idle" /\ ticksLeft' < ticksLeft) =>
          \A id \in sweep'.taken :
             \E n \in notifications :
                /\ n.id = id /\ n.status = "pending"
                /\ SchedInstant(n) <= now]_vars

\* a request handler was entered in this step, in slot s
Entered(s) == opsLeft' < opsLeft /\ FreeSlot(s)

\* C13: send-test called on a notification of the caller that is sent or
\* failed is rejected at once: no mail is sent and no notification changes.
C13_SendTestOnlyFromPending ==
    [][\A s \in Slots :
          (Entered(s) /\ reqs'[s].op = "send_test"
           /\ \E x \in Terminal(notifications) :
                 x.id = reqs'[s].nid /\ x.user_id = reqs'[s].user)
             => /\ reqs'[s].pc = "done"
                /\ reqs'[s].result = "rejected"
                /\ mail' = mail
                /\ notifications' = notifications]_vars

C13_Witness ==
    \E s \in Slots :
       /\ reqs[s].op = "send_test" /\ reqs[s].pc = "done"
       /\ reqs[s].result = "rejected" /\ reqs[s].ev = 0
       /\ mail[reqs[s].nid].testCalls = 0
       /\ \E x \in Terminal(notifications) :
             x.id = reqs[s].nid /\ x.user_id = reqs[s].user

\* the status, sent_at and error_message fields of n are as patch leaves
\* those of a pending notification
LeftAs(n, patch) ==
    /\ n.status = patch.status
    /\ n.sent_at = patch.sent_at
    /\ n.error_message = patch.error_message

\* C14: when send-test has run alone on a pending notification, the
\* notification is as a sweep tick leaves it for the same outcome: failed
\* with "Event or contact not found" when either is missing, failed with
\* "Failed to send email" when the send call returned False, sent otherwise.
C14_SendTestLikeSweep ==
    \A s \in Slots :
       (reqs[s].op = "send_test" /\ reqs[s].pc = "done" /\ reqs[s].solo
        /\ reqs[s].ev # 0 /\ Has(notifications, reqs[s].nid))
          => LET n == Find(notifications, reqs[s].nid) IN
             IF reqs[s].result = "rejected" THEN LeftAs(n, MissingPatch)
             ELSE IF ~reqs[s].ok THEN LeftAs(n, SendFailedPatch)
             ELSE LeftAs(n, SentPatch(now))

\* C15: a notification has a sent_at exactly when its status is sent, and a
\* sent_at once set is never written again.
C15_SentAtIffSent ==
    [][\A n \in notifications :
          /\ (n.sent_at # Null) <=> (n.status = "sent")
          /\ n.sent_at # Null =>
                \A m \in notifications' :
                   m.id = n.id => m.sent_at = n.sent_at]_vars

\* C16: a notification carries an error_message only if its status is failed.
C16_ErrorOnlyIfFailed ==
    \A n \in notifications :
       n.error_message # NoError => n.status = "failed"

\* C17: no step changes the id, scheduled_at, created_at or the event,
\* subscription, contact and user references of a notification that stays in
\* the store, and a notification that appears has an id never used before.
C17_ImmutableFields ==
    [][/\ \A n \in notifications : \A m \in notifications' :
             m.id = n.id => /\ m.scheduled_at = n.scheduled_at
                            /\ m.created_at = n.created_at
                            /\ m.event_id = n.event_id
                            /\ m.subscription_id = n.subscription_id
                            /\ m.contact_id = n.contact_id
                            /\ m.user_id = n.user_id
       /\ \A m \in notifications' :
             (~Has(notifications, m.id)) => m.id >= ids.nt]_vars

\* C17 witness: a notification the sweep or send-test has written to, next
\* to a later one that regeneration inserted for the same subscription
C17_Witness ==
    \E n \in Terminal(notifications) : \E m \in Pending(notifications) :
       /\ m.subscription_id = n.subscription_id
       /\ m.id > n.id
       /\ \E s \in Slots : reqs[s].op = "update_event" /\ reqs[s].ev = n.event_id

\* C11: a tick's query selects only notifications that are pending, and the
\* sweep makes a send call only for a notification of its current batch that
\* it has never sent before: a sent or failed notification is never selected
\* or sent again by a later tick.
C11_TerminalNeverReselected ==
    [][/\ (sweep.pc = "idle" /\ ticksLeft' < ticksLeft) =>
             \A id \in sweep'.taken :
                \E n \in Pending(notifications) : n.id = id
       /\ \A id \in DOMAIN mail :
             mail'[id].sweepCalls > mail[id].sweepCalls
                => id \in sweep.taken /\ mail[id].sweepCalls = 0]_vars

\* C11 witness: the second tick has made its query and left out a due
\* notification that the first tick had sent or failed
C11_Witness ==
    /\ ticksLeft = MaxSweeps - 2
    /\ \E n \in Terminal(notifications) :
          /\ IsoLte(n.scheduled_at, [local |-> now, off |-> 0])
          /\ mail[n.id].sweepCalls = 1
          /\ n.id \notin sweep.taken

\* C12: a tick whose query fails ends at once without raising, sends no
\* mail and leaves every notification as it was; the next tick whose query
\* succeeds takes up every due pending notification, and when it has ended
\* each of them has been processed.
C12_QueryFailureAbandonsTick ==
    [][/\ (sweep.pc = "idle" /\ ticksLeft' < ticksLeft /\ ~storeUp)
             => /\ sweep'.pc = "idle" /\ ~sweep'.raised
                /\ sweep'.taken = {}
                /\ mail' = mail
                /\ notifications' = notifications
       /\ (sweep.pc = "idle" /\ sweep.queryFailed /\ ticksLeft' < ticksLeft
           /\ storeUp)
             => /\ ~sweep'.queryFailed
                /\ sweep'.taken =
                     {n.id : n \in {x \in Pending(notifications) :
                         IsoLte(x.scheduled_at, [local |-> now, off |-> 0])}}
       /\ (sweep.pc = "idle" /\ sweep.afterFailure /\ ~sweep.raised)
             => \A id \in sweep.taken : \E x \in sweep.log : x.id = id]_vars

\* C12 witness: the tick after a failed query has ended and has delivered a
\* notification
C12_Witness ==
    /\ sweep.pc = "idle" /\ sweep.afterFailure
    /\ \E x \in sweep.log :
          /\ x.outcome = "ok"
          /\ \E n \in notifications : n.id = x.id /\ n.status = "sent"

\* the update_event that returned in slot s and the update_event before it
\* both regenerated the same event (routes/events.py), both ran alone, and
\* the second left the stored event as the first had left it
RegeneratedTwice(s) ==
    /\ reqs[s].op = "update_event" /\ reqs[s].pc = "done"
    /\ reqs[s].result = "ok"
    /\ reqs[s].ret.regen /\ reqs[s].prev.regen
    /\ reqs[s].ret.alone /\ reqs[s].prev.alone
    /\ reqs[s].ret.event = reqs[s].prev.event

SamePending(s) ==
    /\ reqs[s].ret.count = reqs[s].prev.count
    /\ reqs[s].ret.pending = reqs[s].prev.pending

\* C18 as stated: two regenerations in a row of an unchanged event leave the
\* same pending notifications (count, and scheduled_at per subscription).
C18_RegenerateTwiceSame ==
    \A s \in Slots : RegeneratedTwice(s) => SamePending(s)

\* C18, amended: two regenerations in a row of an unchanged event made at
\* the same time leave the same pending notifications, and no step of either
\* touches a sent or failed notification.
C18_RegenerateTwiceSameAtOneTime ==
    /\ [](\A s \in Slots :
            (RegeneratedTwice(s) /\ reqs[s].ret.at = reqs[s].prev.at)
               => SamePending(s))
    /\ [][\A s \in Slots :
            (reqs[s].op = "update_event" /\ reqs[s].pc \in RegenPcs
             /\ Moved(s))
               => \A n \in Terminal(notifications) : n \in notifications']_vars

\* C18 witness: the second of two regenerations made at one time has
\* returned; the event has a pending notification and a terminal one
C18_Witness ==
    \E s \in Slots :
       /\ RegeneratedTwice(s)
       /\ reqs[s].ret.at = reqs[s].prev.at
       /\ reqs[s].ret.count > 0
       /\ \E n \in Terminal(notifications) : n.event_id = reqs[s].ev

\* C19: when the event no longer exists, regenerate_notifications leaves
\* the notification store as it was.
C19_RegenerateMissingEventNoOp ==
    [][\A s \in Slots :
          (At(s, "update_event", "regen_delete") /\ Moved(s)
           /\ ~Has(events, reqs[s].ev))
             => notifications' = notifications]_vars

\* the process from before startup_event to after shutdown_event, with the
\* sweep as its only activity
InitLifecycle ==
    /\ now = 0
    /\ clockLeft = MaxAdvance
    /\ storeUp = TRUE
    /\ outagesLeft = 0
    /\ \E x \in Seeds : InitStore(x[1], x[2], x[3], x[4])
    /\ reqs = [s \in Slots |-> IdleReq]
    /\ sweep = [IdleSweep EXCEPT !.jobs = 0]
    /\ opsLeft = 0
    /\ ticksLeft = MaxSweeps

NextLifecycle ==
    \/ startup_event
    \/ shutdown_event
    \/ ClockAdvance
    \/ SweepQuery
    \/ SweepFindEvent
    \/ SweepFindContact
    \/ \E o \in MailOutcomes : SweepSend(o)
    \/ SweepMarkSent
    \/ SweepMarkFailed

SpecLifecycle == InitLifecycle /\ [][NextLifecycle]_vars

\* utils/auth.py verify_firebase_token, the dependency of every handler: no
\* credentials (Null) raises 401; a token that verifies names the caller
verify_firebase_token_anonymous(credentials) == "ok"

verify_firebase_token(credentials) ==
    IF credentials = Null THEN "401" ELSE "ok"

\* the dependency raises and the handler `op` is never called
Unauthorized(s, op, credentials) ==
    /\ verify_firebase_token(credentials) = "401"
    /\ Enter(s, Finished([IdleReq EXCEPT !.op = op, !.user = credentials],
                         "401"))
    /\ UNCHANGED <<envVars, dbVars, mail, ticksLeft>>

\* requests with and without a bearer token; a handler runs once the
\* dependency has returned
NextAuth ==
    \/ \E s \in Slots, u \in Users \cup {Null},
          op \in {"create_contact", "delete_contact", "create_event",
                  "update_event", "delete_event", "add_subscription",
                  "remove_subscription", "send_test"} :
         Unauthorized(s, op, u)
    \/ \E s \in Slots, u \in Users \cup {Null}, e \in Emails :
         verify_firebase_token(u) = "ok" /\ CreateContact(s, u, e)
    \/ \E s \in Slots, u \in Users \cup {Null}, c \in ContactIds :
         verify_firebase_token(u) = "ok" /\ DeleteContact(s, u, c)
    \/ \E s \in Slots, u \in Users \cup {Null}, d \in EventDates,
          l \in ReminderLists :
         verify_firebase_token(u) = "ok" /\ CreateEvent(s, u, d, l)
    \/ \E s \in Slots, u \in Users \cup {Null}, e \in EventIds,
          p \in UpdatePayloads :
         verify_firebase_token(u) = "ok" /\ UpdateEvent(s, u, e, p, "routes")
    \/ \E s \in Slots, u \in Users \cup {Null}, e \in EventIds :
         verify_firebase_token(u) = "ok" /\ DeleteEvent(s, u, e)
    \/ \E s \in Slots, u \in Users \cup {Null}, e \in EventIds,
          c \in ContactIds :
         verify_firebase_token(u) = "ok" /\ AddSubscription(s, u, e, c)
    \/ \E s \in Slots, u \in Users \cup {Null}, e \in EventIds,
          b \in SubIds :
         verify_firebase_token(u) = "ok" /\ RemoveSubscription(s, u, e, b)
    \/ \E s \in Slots, u \in Users \cup {Null}, n \in NotifIds :
         verify_firebase_token(u) = "ok" /\ SendTest(s, u, n)
    \/ HandlerSteps

SpecAuth == Init /\ [][NextAuth]_vars

\* a second instance of process_pending_notifications, as another server
\* process with its own scheduler runs it on the same store: its query, ...
WorkerQuery(s) ==
    LET r == [IdleReq EXCEPT !.op = "process_pending_notifications"]
        batch == QueryDue(notifications, now)
    IN
    /\ Enter(s, IF batch = <<>> THEN Finished(r, "ok")
                ELSE [r EXCEPT !.pc = "send", !.todo = batch])
    /\ UNCHANGED <<envVars, dbVars, mail, ticksLeft>>

\* ... for the notification at hand the two lookups and the send, ...
WorkerSend(s, outcome) ==
    LET r == reqs[s]
        n == Head(r.todo)
        found == Has(events, n.event_id) /\ Has(contacts, n.contact_id)
    IN
    /\ At(s, "process_pending_notifications", "send")
    /\ storeUp
    /\ mail' = IF found
               THEN [mail EXCEPT ![n.id].sweepCalls = @ + 1,
                                 ![n.id].delivered =
                                     IF outcome = "ok" THEN @ + 1 ELSE @]
               ELSE mail
    /\ Step(s, [r EXCEPT !.pc = IF ~found THEN "mark_missing"
                                ELSE IF send_email(outcome) THEN "mark_sent"
                                ELSE "mark_failed"])
    /\ UNCHANGED <<envVars, dbVars, sweep, opsLeft, ticksLeft>>

\* ... and the update_one that records the result, by id alone
WorkerMark(s) ==
    LET r == reqs[s] IN
    /\ reqs[s].op = "process_pending_notifications"
    /\ r.pc \in {"mark_missing", "mark_sent", "mark_failed"}
    /\ storeUp
    /\ notifications' =
         UpdateOne(notifications, Head(r.todo).id,
                   IF r.pc = "mark_sent" THEN SentPatch(now)
                   ELSE IF r.pc = "mark_failed" THEN SendFailedPatch
                   ELSE MissingPatch)
    /\ Step(s, IF Len(r.todo) > 1
               THEN [r EXCEPT !.pc = "send", !.todo = Tail(@)]
               ELSE Finished(r, "ok"))
    /\ UNCHANGED <<envVars, events, contacts, subscriptions, ids, sweep,
                   mail, opsLeft, ticksLeft>>

\* the scheduled sweep and a second instance of it, no request handler
NextWorkers ==
    \/ ClockAdvance
    \/ SweepQuery
    \/ SweepFindEvent
    \/ SweepFindContact
    \/ \E o \in MailOutcomes : SweepSend(o)
    \/ SweepMarkSent
    \/ SweepMarkFailed
    \/ \E s \in Slots : WorkerQuery(s)
    \/ \E s \in Slots, o \in MailOutcomes : WorkerSend(s, o)
    \/ \E s \in Slots : WorkerMark(s)

SpecWorkers == InitTicks /\ [][NextWorkers]_vars

\* the requests of two users on one store: user 1, who owns the seeded
\* documents, and user 2, who starts with none
NextUsers ==
    \/ \E s \in Slots, u \in Users \cup {2}, e \in Emails :
         CreateContact(s, u, e)
    \/ \E s \in Slots, u \in Users \cup {2}, c \in ContactIds :
         DeleteContact(s, u, c)
    \/ \E s \in Slots, u \in Users \cup {2}, d \in EventDates,
          l \in ReminderLists : CreateEvent(s, u, d, l)
    \/ \E s \in Slots, u \in Users \cup {2}, e \in EventIds,
          p \in UpdatePayloads, i \in {"routes", "server"} :
         UpdateEvent(s, u, e, p, i)
    \/ \E s \in Slots, u \in Users \cup {2}, e \in EventIds :
         DeleteEvent(s, u, e)
    \/ \E s \in Slots, u \in Users \cup {2}, e \in EventIds,
          c \in ContactIds : AddSubscription(s, u, e, c)
    \/ \E s \in Slots, u \in Users \cup {2}, e \in EventIds, b \in SubIds :
         RemoveSubscription(s, u, e, b)
    \/ \E s \in Slots, u \in Users \cup {2}, n \in NotifIds :
         SendTest(s, u, n)
    \/ HandlerSteps

SpecUsers == InitWith(MaxRegens, 0, 0, 0) /\ [][NextUsers]_vars

\* update_event requests one after the other while the store may go down and
\* come back: a regeneration can be cut short between its delete and its
\* inserts, and the next one runs on what it left
NextCrash ==
    \/ \E s \in Slots, u \in Users, e \in EventIds, p \in UpdatePayloads :
         Quiet /\ UpdateEvent(s, u, e, p, "routes")
    \/ \E s \in Slots : UpdateEventWrite(s)
    \/ \E s \in Slots : RegenDelete(s)
    \/ \E s \in Slots : RegenFindEvent(s)
    \/ \E s \in Slots : RegenFindSubs(s)
    \/ \E s \in Slots : GenStep(s)
    \/ \E s \in Slots : UpdateEventReload(s)
    \/ StoreFails
    \/ StoreRecovers
    \/ \E s \in Slots : Abort(s)

SpecCrash == InitWith(MaxRegens, 0, 0, MaxOutages) /\ [][NextCrash]_vars

\* a crowded store: event 1 of user 1, a minute ahead at time 0, with a
\* reminder one minute before, and n contacts subscribed to it at time 0, for
\* an n in `sizes`
InitCrowd(sizes, ops, ticks) ==
    /\ now = 0
    /\ clockLeft = 0
    /\ storeUp = TRUE
    /\ outagesLeft = 0
    /\ \E n \in sizes :
         LET event == SeedEvent(1, Ts(60, 0, TRUE), <<Min1>>)
             sub(k) == [id |-> k, event_id |-> 1, contact_id |-> k,
                        user_id |-> 1]
         IN
         /\ events = {event}
         /\ contacts = {[id |-> k, user_id |-> 1, email |-> "other"] :
                           k \in 1..n}
         /\ subscriptions = {sub(k) : k \in 1..n}
         /\ notifications =
              {NewNotification(k, 1, sub(k), 1,
                   calculate_notification_time(event.event_date, Min1), 0) :
                 k \in 1..n}
         /\ ids = [ev |-> 2, ct |-> n + 1, sub |-> n + 1, nt |-> n + 1]
         /\ mail = [k \in 1..n |-> NoMail]
    /\ reqs = [s \in Slots |-> IdleReq]
    /\ sweep = IdleSweep
    /\ opsLeft = ops
    /\ ticksLeft = ticks

\* the sweep alone on a store with more due notifications than a tick takes; within one tick the mail transport answers
\* every send the same way
NextBatch ==
    \/ SweepQuery
    \/ SweepFindEvent
    \/ SweepFindContact
    \/ \E outcome \in MailOutcomes :
         /\ \A l \in sweep.log : l.outcome = outcome
         /\ SweepSend(outcome)
    \/ SweepMarkSent
    \/ SweepMarkFailed

SpecBatch ==
    InitCrowd({BatchSize, BatchSize + 1}, 0, MaxSweeps) /\ [][NextBatch]_vars

\* the interval job fires again every minute for as long as the server
\* runs: ticks are counted in rounds of MaxSweeps, and a new round begins
\* when one is used up
TimerGoesOn ==
    /\ TimerFires
    /\ ticksLeft = 0
    /\ ticksLeft' = MaxSweeps
    /\ UNCHANGED <<envVars, dbVars, reqs, sweep, mail, opsLeft>>

\* the sweep for ever, on the seeded stores while the clock moves and further
\* notifications become due, or on the store with more due notifications
\* than a tick takes
NextLive == ClockAdvance \/ NextBatch \/ TimerGoesOn

\* the scheduler keeps firing the job and a running tick keeps taking steps
SpecLive ==
    /\ InitWith(0, MaxSweeps, MaxAdvance, 0)
         \/ InitCrowd({BatchSize + 1}, 0, MaxSweeps)
    /\ [][NextLive]_vars
    /\ WF_vars(SweepQuery)
    /\ WF_vars(TimerGoesOn)
    /\ WF_vars(SweepFindEvent \/ SweepFindContact \/ SweepMarkSent
                 \/ SweepMarkFailed
                 \/ \E outcome \in MailOutcomes : SweepSend(outcome))

\* update_event alone on an event with as many subscriptions as
\* regenerate_notifications lists, or one more
NextMany ==
    \/ \E s \in Slots, u \in Users, e \in EventIds, p \in UpdatePayloads :
         Quiet /\ UpdateEvent(s, u, e, p, "routes")
    \/ \E s \in Slots : UpdateEventWrite(s)
    \/ \E s \in Slots : RegenDelete(s)
    \/ \E s \in Slots : RegenFindEvent(s)
    \/ \E s \in Slots : RegenFindSubs(s)
    \/ \E s \in Slots : GenStep(s)
    \/ \E s \in Slots : UpdateEventReload(s)

SpecMany ==
    InitCrowd({SubscriptionLimit, SubscriptionLimit + 1}, MaxOps, 0)
    /\ [][NextMany]_vars

\* two handlers that run the factory at once: update_event (with its
\* regeneration) and add_subscription; no sweep, the clock stands still
NextRace ==
    \/ \E s \in Slots, u \in Users, e \in EventIds, p \in UpdatePayloads :
         UpdateEvent(s, u, e, p, "routes")
    \/ \E s \in Slots, u \in Users, e \in EventIds, c \in ContactIds :
         AddSubscription(s, u, e, c)
    \/ \E s \in Slots : UpdateEventWrite(s)
    \/ \E s \in Slots : RegenDelete(s)
    \/ \E s \in Slots : RegenFindEvent(s)
    \/ \E s \in Slots : RegenFindSubs(s)
    \/ \E s \in Slots : UpdateEventReload(s)
    \/ \E s \in Slots : AddSubscriptionFindContact(s)
    \/ \E s \in Slots : AddSubscriptionFindExisting(s)
    \/ \E s \in Slots : AddSubscriptionInsert(s)
    \/ \E s \in Slots : GenStep(s)

SpecRace == InitRegen /\ [][NextRace]_vars

\* ------------------------------------------- the resolver called on its own
\* calculate_notification_time is a function of its two arguments; the
\* specification below calls it once on every pair of an event date and a
\* ReminderInterval the model accepts.  The call is carried by request
\* slot 1: the arguments in `date` and `rems`, the value returned in `todo`.
MaxValue == 2

ResolverIntervals ==
    {Interval(u, v, TRUE, NoTs, FALSE) : u \in RelativeUnits,
                                        v \in (0 - 1)..MaxValue}
    \cup {Interval("minutes", 0, FALSE, NoTs, FALSE),
          Interval("days", 1, TRUE, Ts(0, 0 - 60, TRUE), TRUE),
          Interval("months", 1, TRUE, NoTs, FALSE),
          Interval("custom", 0, FALSE, NoTs, FALSE),
          Interval("custom", 0, FALSE, Ts(0, 0 - 60, TRUE), TRUE),
          Interval("custom", 0, FALSE, Ts(30, 0, FALSE), TRUE)}

InitResolver ==
    /\ now = 0
    /\ clockLeft = 0
    /\ storeUp = TRUE
    /\ outagesLeft = 0
    /\ events = {}
    /\ contacts = {}
    /\ subscriptions = {}
    /\ notifications = {}
    /\ ids = [ev |-> 1, ct |-> 1, sub |-> 1, nt |-> 1]
    /\ mail = <<>>
    /\ \E ed \in EventDates \cup {Ts(60, 0, FALSE)},
          i \in ResolverIntervals :
          reqs = [s \in Slots |->
                    IF s = 1
                    THEN [IdleReq EXCEPT
                            !.op = "calculate_notification_time",
                            !.pc = "call", !.hasDate = TRUE, !.date = ed,
                            !.hasRems = TRUE, !.rems = <<i>>]
                    ELSE IdleReq]
    /\ sweep = IdleSweep
    /\ opsLeft = 0
    /\ ticksLeft = 0

Calculate(s) ==
    /\ At(s, "calculate_notification_time", "call")
    /\ LET r == reqs[s]
       IN  Step(s, IF CalcRaises(r.rems[1])
                   THEN [r EXCEPT !.pc = "done", !.result = "error"]
                   ELSE [r EXCEPT !.pc = "done", !.result = "ok",
                                  !.todo = <<calculate_notification_time(
                                               r.date, r.rems[1])>>])
    /\ UNCHANGED <<now, clockLeft, storeUp, outagesLeft, events, contacts,
                   subscriptions, notifications, ids, sweep, mail, opsLeft,
                   ticksLeft>>

NextResolver == \E s \in Slots : Calculate(s)

SpecResolver == InitResolver /\ [][NextResolver]_vars

Resolved(s) ==
    /\ At(s, "calculate_notification_time", "done")
    /\ reqs[s].rems[1].unit \in RelativeUnits
    /\ reqs[s].rems[1].hasValue

\* C20: for every event time and every interval whose unit is minutes,
\* hours, days or weeks and whose value is an integer v,
\* calculate_notification_time returns a timestamp, and that timestamp is the
\* event time (read as UTC when it has no zone) minus v times the unit's
\* duration of 1, 60, 1440 or 10080 minutes, in the event time's own zone.
C20_RelativeUnitsSubtract ==
    \A s \in Slots :
        Resolved(s)
          => LET r == reqs[s]
                 i == r.rems[1]
                 UnitMinutes(unit) ==
                     CASE unit = "minutes" -> 1
                       [] unit = "hours" -> 60
                       [] unit = "days" -> 1440
                       [] unit = "weeks" -> 10080
             IN  /\ r.result = "ok"
                 /\ Len(r.todo) = 1
                 /\ r.todo[1].aware
                 /\ r.todo[1].off = r.date.off
                 /\ r.todo[1].local
                      = r.date.local - i.value * UnitMinutes(i.unit) * 60
                 /\ Instant(r.todo[1])
                      = Instant(r.date) - i.value * UnitMinutes(i.unit) * 60

C20_Witness ==
    \E s \in Slots :
        /\ Resolved(s)
        /\ reqs[s].rems[1].unit = "hours"
        /\ reqs[s].rems[1].value = 2
        /\ reqs[s].date = Ts(90, 0 - 60, TRUE)
        /\ reqs[s].todo = <<Ts(90 - 7200, 0 - 60, TRUE)>>

Called(s) == At(s, "calculate_notification_time", "done")

\* C21: for every interval whose unit is custom, calculate_notification_time
\* returns the interval's custom_date (the same wall-clock reading and zone,
\* UTC when it has none), whatever the event time is.
C21_CustomReturnsCustomDate ==
    \A s \in Slots :
        (Called(s) /\ reqs[s].rems[1].unit = "custom")
          => LET r == reqs[s]
                 i == r.rems[1]
             IN  /\ r.result = "ok"
                 /\ i.hasCustom
                 /\ r.todo = <<Ts(i.custom.local, i.custom.off, TRUE)>>

\* C22: for an interval whose unit is none of minutes, hours, days, weeks and
\* custom, calculate_notification_time returns the event time with nothing
\* subtracted: the same wall-clock reading in the same zone (UTC when the
\* event time has none).
C22_UnknownUnitReturnsEventTime ==
    \A s \in Slots :
        (Called(s) /\ reqs[s].rems[1].unit \notin RelativeUnits \cup {"custom"})
          => LET r == reqs[s]
             IN  /\ r.result = "ok"
                 /\ r.todo = <<Ts(r.date.local, r.date.off, TRUE)>>
                 /\ Instant(r.todo[1]) = Instant(r.date)

C22_Witness ==
    \E s \in Slots :
        /\ Called(s)
        /\ reqs[s].rems[1].unit = "months"
        /\ reqs[s].date = Ts(60, 0, FALSE)
        /\ reqs[s].todo = <<Ts(60, 0, TRUE)>>

\* C23: for every interval the ReminderInterval model accepts (any unit,
\* value present or null, custom_date present or null)
\* calculate_notification_time returns a timestamp and does not raise.
C23_ResolverNeverRaises ==
    \A s \in Slots :
        Called(s) => reqs[s].result = "ok" /\ Len(reqs[s].todo) = 1

\* C24: once delete_event, remove_subscription or delete_contact has completed
\* and every request handler has returned, the store holds no notification,
\* in any status, that references the deleted event, subscription or contact.
C24_CascadeLeavesNoNotification ==
    (\A q \in Slots : ~Running(q))
      => \A s \in Slots :
           (reqs[s].pc = "done" /\ reqs[s].result = "ok")
             => /\ reqs[s].op = "delete_event"
                   => \A n \in notifications : n.event_id # reqs[s].ev
                /\ reqs[s].op = "remove_subscription"
                   => \A n \in notifications :
                        n.subscription_id # reqs[s].sub
                /\ reqs[s].op = "delete_contact"
                   => \A n \in notifications : n.contact_id # reqs[s].ct

\* C25: whenever no request handler is running, a subscription has no more
\* pending notifications than its event has reminder intervals, that is at
\* most one pending notification per reminder interval and subscription.
C25_OnePendingPerInterval ==
    (\A q \in Slots : ~Running(q))
      => \A b \in subscriptions :
           Has(events, b.event_id)
             => Cardinality({n \in Pending(notifications) :
                               n.subscription_id = b.id})
                  <= Len(Find(events, b.event_id).rems)

\* C26: the sweep sends no mail for a notification whose owning subscription
\* no longer exists at send time; it marks that notification failed with the
\* not-found message instead.
C26_MissingSubscriptionFailed ==
    [][\A n \in notifications :
          (/\ sweep.batch # <<>>
           /\ n.id = Head(sweep.batch).id
           /\ ~Has(subscriptions, n.subscription_id))
            => /\ (sweep.pc = "send" /\ sweep'.pc # "send") => mail' = mail
               /\ (sweep.pc \in {"mark_sent", "mark_failed", "mark_missing"}
                   /\ sweep'.pc # sweep.pc)
                     => \A m \in notifications' :
                          m.id = n.id => /\ m.status = "failed"
                                         /\ m.error_message = MissingMsg]_vars

C28_InsertedNotificationIsFresh ==
    [][/\ \A n \in notifications' :
            (\A m \in notifications : m.id # n.id)
              => /\ n.status = "pending"
                 /\ n.sent_at = Null
                 /\ n.error_message = NoError
                 /\ n.created_at = now
                 /\ \E s \in Slots :
                     /\ reqs[s].pc = "gen"
                     /\ Moved(s)
                     /\ n.event_id = reqs[s].snap.id
                     /\ n.subscription_id = Head(reqs[s].todo).id
                     /\ n.contact_id = Head(reqs[s].todo).contact_id
                     /\ n.user_id = reqs[s].user
                     /\ n.user_id = reqs[s].snap.user_id
       /\ \A s \in Slots :
            (/\ reqs[s].pc = "gen" /\ Moved(s)
             /\ ~GenRaises(reqs[s]) /\ GenPasses(reqs[s]))
               => /\ Cardinality(notifications')
                       = Cardinality(notifications) + 1
                  /\ \E n \in notifications' :
                        /\ \A m \in notifications : m.id # n.id
                        /\ notifications' = notifications \cup {n}
       /\ \A n, m \in notifications' : n.id = m.id => n = m]_vars

C28_Witness ==
    \E n \in notifications :
        /\ n.created_at = 60
        /\ n.status = "pending"
        /\ n.subscription_id # n.contact_id
        /\ \E s \in Slots : reqs[s].pc = "done" /\ reqs[s].result = "ok"

\* C29: a request that arrives without a bearer token is answered 401 and its
\* handler never runs: the request is over at once and events, contacts,
\* subscriptions and notifications are what they were.
C29_NoTokenRejected ==
    /\ [](\A s \in Slots :
            reqs[s].user = Null
              => reqs[s].pc = "done" /\ reqs[s].result = "401")
    /\ [][\A s \in Slots :
            (Entered(s) /\ reqs'[s].user = Null)
              => /\ reqs'[s].result = "401"
                 /\ events' = events
                 /\ contacts' = contacts
                 /\ subscriptions' = subscriptions
                 /\ notifications' = notifications
                 /\ ids' = ids]_vars

C29_Witness ==
    \E s \in Slots :
        /\ reqs[s].op = "create_contact"
        /\ reqs[s].user = Null
        /\ reqs[s].result = "401"
        /\ notifications # {}

\* C30: a store call that fails inside regenerate_notifications or
\* generate_notifications_for_subscription ends the calling handler with the
\* error, and the store keeps what was deleted and inserted before it: the
\* failing step changes nothing and nothing is put back.
C30_FactoryErrorPropagates ==
    [][\A s \in Slots :
          (/\ reqs[s].pc \in RegenPcs \cup {"gen"}
           /\ StoreCallNext(reqs[s])
           /\ ~storeUp
           /\ Moved(s))
            => /\ reqs'[s].pc = "done"
               /\ reqs'[s].result = "error"
               /\ events' = events
               /\ contacts' = contacts
               /\ subscriptions' = subscriptions
               /\ notifications' = notifications]_vars

C30_Witness ==
    \E s \in Slots :
        /\ reqs[s].op = "update_event"
        /\ reqs[s].pc = "done"
        /\ reqs[s].result = "error"
        /\ now = 0
        /\ ~storeUp
        /\ \E b \in subscriptions :
              /\ b.event_id = reqs[s].ev
              /\ \A n \in notifications : n.subscription_id # b.id

\* C31: when a regeneration has completed with nothing else running, the
\* event's pending notifications are the factory's yield from the stored
\* event, its subscriptions and the time, whatever pending notifications
\* the store held before, also after a regeneration that was cut short.
C31_RegenerateRestores ==
    \A s \in Slots :
        (/\ reqs[s].op = "update_event" /\ reqs[s].pc = "done"
         /\ reqs[s].result = "ok"
         /\ reqs[s].ret.regen /\ reqs[s].ret.alone)
          => /\ PendingIsYield(reqs[s].ev)
             /\ reqs[s].ret.count = Cardinality(PendingOf(reqs[s].ev))

\* C31 witness: the regeneration before this one failed and left the event
\* without pending notifications; this one has restored them
C31_Witness ==
    \E s \in Slots :
        /\ reqs[s].op = "update_event" /\ reqs[s].pc = "done"
        /\ reqs[s].result = "ok"
        /\ reqs[s].ret.regen /\ reqs[s].ret.alone
        /\ reqs[s].prev.event # NoEvent
        /\ ~reqs[s].prev.regen
        /\ reqs[s].prev.pending = {}
        /\ reqs[s].ret.count > 0

\* C32: a tick takes up at most BatchSize notifications, and a notification
\* the tick did not take up (due or not) is left exactly as it was by every
\* step of the tick.
C32_TickTakesAtMostBatch ==
    /\ [](/\ Cardinality(sweep.taken) <= BatchSize
          /\ Cardinality({l.id : l \in sweep.log}) <= BatchSize)
    /\ [][\A n \in notifications :
            n \notin notifications' => n.id \in sweep.taken]_vars

\* C32 witness: a tick has ended having moved BatchSize notifications out of
\* pending, and a due notification it did not take is still pending, with no
\* send attempted
C32_Witness ==
    /\ sweep.pc = "idle"
    /\ Cardinality(sweep.taken) = BatchSize
    /\ Cardinality(Terminal(notifications)) = BatchSize
    /\ \E n \in notifications :
         /\ Due(n, now)
         /\ n.id \notin sweep.taken
         /\ mail[n.id] = NoMail

\* C33: regenerate_notifications hands every subscription of the event to
\* the factory, however many there are, and when an update_event that
\* regenerates returns with nothing else running, every subscription of the
\* event has a pending notification for each reminder interval that passes
\* the creation gate.
C33_EverySubscriptionRegenerated ==
    [][\A s \in Slots :
         LET ev == Find(events, reqs[s].ev)
             due == {k \in 1..Len(ev.rems) :
                       Gate(calculate_notification_time(ev.event_date,
                                                        ev.rems[k]), now)}
             have == {<<n.subscription_id, n.scheduled_at>> :
                        n \in PendingOf(ev.id)}
             served == \A b \in subscriptions :
                         b.event_id = ev.id
                           => \A k \in due :
                                <<b.id, IsoOf(calculate_notification_time(
                                                ev.event_date, ev.rems[k]))>>
                                  \in have
         IN
         /\ (At(s, "update_event", "regen_subs") /\ reqs'[s].pc = "gen")
               => {reqs'[s].todo[k].id : k \in 1..Len(reqs'[s].todo)}
                    = {b.id : b \in {x \in subscriptions :
                                       x.event_id = reqs[s].ev}}
         /\ (/\ At(s, "update_event", "reload")
             /\ reqs'[s].pc = "done" /\ reqs'[s].result = "ok"
             /\ reqs'[s].ret.regen /\ reqs'[s].ret.alone)
               => served]_vars

\* C34: as long as the scheduled sweep is the only instance that has run
\* and no handler has run beside it, no notification has been handed to the
\* mail transport more than once (with a second instance the witness below
\* is reached: one notification mailed twice).
C34_SingleSweepMailsOnce ==
    (\A s \in Slots : reqs[s].op = "idle")
      => \A id \in DOMAIN mail : mail[id].sweepCalls <= 1

\* C34 witness: two instances have each selected the same pending
\* notification and each delivered its mail
C34_Witness ==
    \E s \in Slots, id \in DOMAIN mail :
        /\ reqs[s].op = "process_pending_notifications"
        /\ mail[id].sweepCalls = 2
        /\ mail[id].delivered = 2
        /\ [id |-> id, outcome |-> "ok"] \in sweep.log

C36_SendsOnlyStillPending ==
    [][(sweep.pc = "send" /\ sweep'.pc # "send")
         => \E n \in Pending(notifications) :
               n.id = Head(sweep.batch).id]_vars

\* C37: when the sweep is done with a notification whose send call returned
\* success in this tick, the notification is sent: not failed and not still
\* pending, also when a store call of the tick has failed.
C37_DeliveredEndsSent ==
    [][(/\ sweep.batch # <<>>
        /\ sweep'.batch # sweep.batch
        /\ [id |-> Head(sweep.batch).id, outcome |-> "ok"] \in sweep.log)
         => \A n \in notifications' :
               n.id = Head(sweep.batch).id => n.status = "sent"]_vars

\* C38: once an add_subscription and an update_event on the same event have
\* both returned, whatever their interleaving, every pending notification of
\* the event is scheduled at the instant at which one of the reminder
\* intervals of the event as stored fires.
C38_PendingMatchesStoredEvent ==
    \A s, q \in Slots :
        (/\ reqs[s].op = "add_subscription" /\ reqs[s].pc = "done"
         /\ reqs[q].op = "update_event" /\ reqs[q].pc = "done"
         /\ reqs[s].result = "ok" /\ reqs[q].result = "ok"
         /\ reqs[s].ev = reqs[q].ev)
          => LET ev == Find(events, reqs[q].ev) IN
             \A n \in PendingOf(ev.id) :
                \E k \in 1..Len(ev.rems) :
                   SchedInstant(n)
                     = Instant(calculate_notification_time(ev.event_date,
                                                           ev.rems[k]))

\* C39: an event never has two subscriptions for the same contact, also
\* when two add_subscription requests for the pair run at once.
C39_OneSubscriptionPerPair ==
    \A a, b \in subscriptions :
        (a.event_id = b.event_id /\ a.contact_id = b.contact_id)
          => a.id = b.id

\* C40: no step of a request handler creates, changes or deletes a
\* notification owned by a user other than the caller of that request.
C40_OtherUsersNotificationsUntouched ==
    [][\A s \in Slots :
         (Moved(s) \/ Entered(s))
           => {n \in notifications : n.user_id # reqs'[s].user}
                = {n \in notifications' : n.user_id # reqs'[s].user}]_vars

\* C40 witness: a request of user 1 that deletes or regenerates has gone
\* through while user 2 owns a notification
C40_Witness ==
    \E s \in Slots :
        /\ reqs[s].user = 1 /\ reqs[s].pc = "done" /\ reqs[s].result = "ok"
        /\ reqs[s].op \in {"update_event", "delete_event", "delete_contact",
                           "remove_subscription"}
        /\ \E n \in notifications : n.user_id = 2

====
